---------------------------- MODULE Spec2Model ----------------------------
(***************************************************************************)
(* RATSnest: TDX remote attestation tunnel.                                *)
(*                                                                         *)
(* The module models these parts of the repository:                        *)
(*   - the measurement policy of shared/policy.ts (src/unnamed/part_002):  *)
(*     hex normalisation, the MRTD / RTMR allow-lists, the IMA log parser  *)
(*     and verifyMeasurements                          (SpecPolicy);       *)
(*   - the report client of backend/tdx.ts over ConfigFS-TSM and the       *)
(*     tunnel's getQuote of backend/tunnel.ts          (Spec);             *)
(*   - the measurement extraction of backend/tdx.ts    (SpecExtract);      *)
(*   - the browser's X25519 binding step of frontend/src/App.tsx           *)
(*                                                     (SpecBinding);      *)
(*   - the report_data digest as the tunnel server, the page and the       *)
(*     debug endpoint compute it                       (SpecDigest);       *)
(*   - the page's quote verification, verifyTdxQuote of                    *)
(*     frontend/src/App.tsx, with the ?mrtd= parameter (SpecVerify);       *)
(*   - the IMA log parsers of backend/ima.ts and shared/policy.ts applied  *)
(*     to the same text                                (SpecParse).        *)
(*                                                                         *)
(* JavaScript strings are sequences of one-character strings, byte arrays  *)
(* are sequences of 0..255, and an optional value (T | undefined) is the   *)
(* empty tuple for undefined and the one-element tuple <<v>> for v.        *)
(***************************************************************************)
EXTENDS Integers, Sequences, FiniteSets, TLC

VARIABLES
    policy,       \* shared/policy.ts: the module-level policy object
    evalOp,       \* the policy function applied last ("none" before any)
    evalArgs,     \* its arguments
    evalResult,   \* what it returned
    imaOutcome,   \* what verifyIMAMeasurements returned last
    normalizeResult, \* what normalizeMeasurement returned last
    USE_REAL_TDX, \* backend/tunnel.ts: Deno.env.get("USE_REAL_TDX") === "true"
    calls,        \* the getQuote calls of the backend, one record per call
    dirs,         \* /sys/kernel/config/tsm/report: the request directories
    generation,   \* how many quotes the TSM provider has produced so far
    extraction,   \* backend/tdx.ts: the measurement extraction applied last
    handshakeDetails, \* frontend/src/App.tsx: the module-level handshakeDetails
    handshake,    \* the browser's last X25519 binding step and its answer
    binding,      \* one handshake's report_data as computed by the tunnel
                  \* server, by the page and by the debug endpoint
    queryMrtd,    \* frontend/src/App.tsx: urlParams.get('mrtd')
    verifyRun,    \* the page's last verifyTdxQuote call and what it returned
    parseRun      \* the log text handed to the two parseIMALog functions last
                  \* and the entries each returned

policyVars == <<policy, evalOp, evalArgs, evalResult, imaOutcome, normalizeResult>>

serverVars == <<USE_REAL_TDX, calls, dirs, generation, extraction>>

clientVars == <<handshakeDetails, handshake, binding>>

pageVars == <<queryMrtd, verifyRun>>

parserVars == <<parseRun>>

vars == <<policy, evalOp, evalArgs, evalResult, imaOutcome, normalizeResult,
          USE_REAL_TDX, calls, dirs,
          generation, extraction, handshakeDetails, handshake, binding,
          queryMrtd, verifyRun, parseRun>>

-----------------------------------------------------------------------------
(* Optional values and strings *)

undefined == <<>>

Some(v) == <<v>>

IsDefined(o) == o # undefined

Get(o) == o[1]

\* JavaScript truthiness of a value of type string | undefined: undefined and
\* the empty string are falsy.
TruthyString(o) == IsDefined(o) /\ Get(o) # <<>>

\* JavaScript truthiness of an array | undefined: every array is truthy.
TruthyArray(o) == IsDefined(o)

\* String.prototype.toLowerCase on one character.
ToLowerChar(ch) ==
    CASE ch = "A" -> "a"
      [] ch = "B" -> "b"
      [] ch = "X" -> "x"
      [] OTHER -> ch

toLowerCase(s) == [i \in 1..Len(s) |-> ToLowerChar(s[i])]

\* s.replace(/^0x/i, ''): drops one leading "0x" or "0X".
StripHexPrefix(s) ==
    IF Len(s) >= 2 /\ s[1] = "0" /\ s[2] \in {"x", "X"}
    THEN SubSeq(s, 3, Len(s))
    ELSE s

IsWhitespace(ch) == ch \in {" ", "\t", "\n", "\r"}

RECURSIVE TrimStart(_)
TrimStart(s) ==
    IF s # <<>> /\ IsWhitespace(Head(s)) THEN TrimStart(Tail(s)) ELSE s

RECURSIVE TrimEnd(_)
TrimEnd(s) ==
    IF s # <<>> /\ IsWhitespace(s[Len(s)])
    THEN TrimEnd(SubSeq(s, 1, Len(s) - 1))
    ELSE s

\* String.prototype.trim
trim(s) == TrimEnd(TrimStart(s))

\* String.prototype.startsWith
startsWith(s, prefix) ==
    /\ Len(s) >= Len(prefix)
    /\ SubSeq(s, 1, Len(prefix)) = prefix

\* String.prototype.includes for a one-character needle.
includes(s, ch) == \E i \in 1..Len(s) : s[i] = ch

\* s.split(sep) for a one-character separator: the pieces between
\* occurrences of sep, empty pieces included.
RECURSIVE SplitOn(_, _, _)
SplitOn(s, sep, cur) ==
    IF s = <<>> THEN <<cur>>
    ELSE IF Head(s) = sep THEN <<cur>> \o SplitOn(Tail(s), sep, <<>>)
    ELSE SplitOn(Tail(s), sep, Append(cur, Head(s)))

split(s, sep) == SplitOn(s, sep, <<>>)

\* s.split(/\s+/): the pieces between maximal runs of whitespace; a leading
\* or trailing run yields an empty first or last piece, and the empty
\* string yields one empty piece.
RECURSIVE SplitWs(_, _, _)
SplitWs(s, cur, inRun) ==
    IF s = <<>> THEN <<cur>>
    ELSE IF IsWhitespace(Head(s))
         THEN IF inRun THEN SplitWs(Tail(s), cur, TRUE)
              ELSE <<cur>> \o SplitWs(Tail(s), <<>>, TRUE)
    ELSE SplitWs(Tail(s), Append(cur, Head(s)), FALSE)

splitWhitespace(s) == SplitWs(s, <<>>, FALSE)

\* parts.join(' ')
RECURSIVE join(_)
join(parts) ==
    IF parts = <<>> THEN <<>>
    ELSE IF Len(parts) = 1 THEN parts[1]
    ELSE parts[1] \o <<" ">> \o join(Tail(parts))

IsDigit(ch) == ch \in {"0", "1", "2", "3", "4", "5", "6", "7", "8", "9"}

DigitValue(ch) ==
    CASE ch = "0" -> 0 [] ch = "1" -> 1 [] ch = "2" -> 2 [] ch = "3" -> 3
      [] ch = "4" -> 4 [] ch = "5" -> 5 [] ch = "6" -> 6 [] ch = "7" -> 7
      [] ch = "8" -> 8 [] ch = "9" -> 9

\* NaN, the result of parseInt on a token with no leading digit.
NaN == -1

RECURSIVE ParseDigits(_, _)
ParseDigits(s, acc) ==
    IF s # <<>> /\ IsDigit(Head(s))
    THEN ParseDigits(Tail(s), 10 * acc + DigitValue(Head(s)))
    ELSE acc

\* parseInt(s, 10) on a token without sign or leading whitespace: the value
\* of the longest prefix of decimal digits, NaN when there is none.
parseInt(s) ==
    IF s # <<>> /\ IsDigit(Head(s)) THEN ParseDigits(s, 0) ELSE NaN

-----------------------------------------------------------------------------
(* shared/policy.ts: normalisation and the allow-lists *)

\* A variant of normalizeMeasurement that strips the prefix and keeps the
\* letter case.
normalizeMeasurement_KeepCase(measurement) == StripHexPrefix(measurement)

\* export function normalizeMeasurement(measurement)
normalizeMeasurement(measurement) == toLowerCase(StripHexPrefix(measurement))

\* list.some(allowed => normalizeMeasurement(allowed) === normalized),
\* evaluated left to right as Array.prototype.some does.
RECURSIVE SomeNormalizedEquals(_, _)
SomeNormalizedEquals(list, normalized) ==
    IF list = <<>> THEN FALSE
    ELSE IF normalizeMeasurement(Head(list)) = normalized THEN TRUE
    ELSE SomeNormalizedEquals(Tail(list), normalized)

\* A variant of isMRTDAllowedIn that treats an empty allow-list as "no policy
\* set", the default isRTMRAllowed has.
isMRTDAllowedIn_EmptyAllowsAll(pol, mrtd) ==
    IF Len(pol.allowed_mrtd) = 0 THEN TRUE
    ELSE SomeNormalizedEquals(pol.allowed_mrtd, normalizeMeasurement(mrtd))

\* isMRTDAllowed against an explicit policy object.
isMRTDAllowedIn(pol, mrtd) ==
    LET normalized == normalizeMeasurement(mrtd)
    IN SomeNormalizedEquals(pol.allowed_mrtd, normalized)

\* export function isMRTDAllowed(mrtd)
isMRTDAllowed(mrtd) == isMRTDAllowedIn(policy, mrtd)

\* A variant of AllowedRtmr that reads allowed_rtmr1 for every register.
AllowedRtmr_AlwaysFirst(pol, rtmrNumber) == pol.allowed_rtmr1

\* policy[`allowed_rtmr${rtmrNumber}`]
AllowedRtmr(pol, rtmrNumber) ==
    CASE rtmrNumber = 1 -> pol.allowed_rtmr1
      [] rtmrNumber = 2 -> pol.allowed_rtmr2
      [] rtmrNumber = 3 -> pol.allowed_rtmr3

\* A variant of RtmrConfigured that takes a one-element list for "no policy
\* set".
RtmrConfigured_NeedsTwoValues(pol, rtmrNumber) ==
    LET allowedValues == AllowedRtmr(pol, rtmrNumber)
    IN TruthyArray(allowedValues) /\ Len(Get(allowedValues)) > 1

\* policy.allowed_rtmrN && policy.allowed_rtmrN.length > 0
RtmrConfigured(pol, rtmrNumber) ==
    LET allowedValues == AllowedRtmr(pol, rtmrNumber)
    IN TruthyArray(allowedValues) /\ Len(Get(allowedValues)) > 0

\* isRTMRAllowed against an explicit policy object.
isRTMRAllowedIn(pol, rtmr, rtmrNumber) ==
    LET allowedValues == AllowedRtmr(pol, rtmrNumber)
    IN IF ~TruthyArray(allowedValues) \/ Len(Get(allowedValues)) = 0
       THEN TRUE
       ELSE SomeNormalizedEquals(Get(allowedValues), normalizeMeasurement(rtmr))

\* export function isRTMRAllowed(rtmr, rtmrNumber)
isRTMRAllowed(rtmr, rtmrNumber) == isRTMRAllowedIn(policy, rtmr, rtmrNumber)

-----------------------------------------------------------------------------
(* shared/policy.ts: the IMA log *)

\* One line of the log to an IMAEntry, or undefined (null) when the line has
\* fewer than five tokens.
ParseIMALine(line) ==
    LET parts == splitWhitespace(trim(line))
    IN IF Len(parts) < 5 THEN undefined
       ELSE Some([pcr          |-> parseInt(parts[1]),
                  templateHash |-> parts[2],
                  templateName |-> parts[3],
                  fileHash     |-> parts[4],
                  filePath     |-> join(SubSeq(parts, 5, Len(parts)))])

RECURSIVE ParseIMALines(_)
ParseIMALines(lines) ==
    IF lines = <<>> THEN <<>>
    ELSE LET line == Head(lines)
             rest == ParseIMALines(Tail(lines))
         IN IF trim(line) = <<>> THEN rest
            ELSE IF ParseIMALine(line) = undefined THEN rest
            ELSE <<Get(ParseIMALine(line))>> \o rest

\* export function parseIMALog(log)
parseIMALog(log) == ParseIMALines(split(log, "\n"))

\* A variant of FindEntry that answers with the last entry of that path.
RECURSIVE FindEntry_Last(_, _)
FindEntry_Last(entries, filePath) ==
    IF entries = <<>> THEN undefined
    ELSE IF FindEntry_Last(Tail(entries), filePath) # undefined
         THEN FindEntry_Last(Tail(entries), filePath)
    ELSE IF Head(entries).filePath = filePath THEN Some(Head(entries))
    ELSE undefined

\* entries.find(e => e.filePath === filePath): the first such entry.
RECURSIVE FindEntry(_, _)
FindEntry(entries, filePath) ==
    IF entries = <<>> THEN undefined
    ELSE IF Head(entries).filePath = filePath THEN Some(Head(entries))
    ELSE FindEntry(Tail(entries), filePath)

\* entry.fileHash.includes(':') ? entry.fileHash.split(':')[1] : entry.fileHash
ActualHash(fileHash) ==
    IF includes(fileHash, ":") THEN split(fileHash, ":")[2] ELSE fileHash

Detail(signal, mark, arg) == [signal |-> signal, mark |-> mark, arg |-> arg]

\* The loop of verifyIMAMeasurements over Object.entries(expected), carrying
\* details, checkedFiles, missingFiles and mismatchedFiles.
RECURSIVE CheckExpected(_, _, _)
CheckExpected(expected, entries, acc) ==
    IF expected = <<>> THEN acc
    ELSE
      LET filePath     == Head(expected).path
          expectedHash == Head(expected).hash
          entry        == FindEntry(entries, filePath)
      IN IF entry = undefined
         THEN CheckExpected(Tail(expected), entries,
                [acc EXCEPT !.details = Append(@, Detail("IMA", "fail", <<"NOT FOUND", filePath>>)),
                            !.missingFiles = Append(@, filePath)])
         ELSE
           LET actualHash == ActualHash(Get(entry).fileHash)
               hashMatch  == toLowerCase(actualHash) = toLowerCase(expectedHash)
           IN IF hashMatch
              THEN CheckExpected(Tail(expected), entries,
                     [acc EXCEPT !.details = Append(@, Detail("IMA", "ok", <<"hash matches", filePath>>)),
                                 !.checkedFiles = @ + 1])
              ELSE CheckExpected(Tail(expected), entries,
                     [acc EXCEPT !.details = @ \o
                                    << Detail("IMA", "fail", <<"HASH MISMATCH", filePath>>),
                                       Detail("IMA", "info", <<"Expected", expectedHash>>),
                                       Detail("IMA", "info", <<"Got", actualHash>>) >>,
                                 !.checkedFiles = @ + 1,
                                 !.mismatchedFiles = Append(@, filePath)])

\* verifyIMAMeasurements against an explicit policy object.
verifyIMAMeasurementsIn(pol, imaLog) ==
    IF ~IsDefined(pol.expected_ima_measurements)
       \/ Len(Get(pol.expected_ima_measurements)) = 0
    THEN [allowed |-> TRUE,
          details |-> << Detail("IMA", "open", <<"no policy set">>) >>,
          checkedFiles |-> 0, missingFiles |-> <<>>, mismatchedFiles |-> <<>>]
    ELSE
      LET entries == parseIMALog(imaLog)
          start   == [details |-> << Detail("IMA", "info", <<"Found", Len(entries)>>) >>,
                      checkedFiles |-> 0, missingFiles |-> <<>>,
                      mismatchedFiles |-> <<>>]
          done    == CheckExpected(Get(pol.expected_ima_measurements), entries, start)
      IN [allowed |-> Len(done.missingFiles) = 0 /\ Len(done.mismatchedFiles) = 0,
          details |-> done.details,
          checkedFiles |-> done.checkedFiles,
          missingFiles |-> done.missingFiles,
          mismatchedFiles |-> done.mismatchedFiles]

\* export function verifyIMAMeasurements(imaLog)
verifyIMAMeasurements(imaLog) == verifyIMAMeasurementsIn(policy, imaLog)

-----------------------------------------------------------------------------
(* shared/policy.ts: verifyMeasurements *)

\* The detail line(s) of register n: none when the candidate has no truthy
\* value for it.
RtmrDetails(pol, rtmr, n, name) ==
    IF TruthyString(rtmr)
    THEN LET rtmrAllowed == isRTMRAllowedIn(pol, Get(rtmr), n)
         IN IF RtmrConfigured(pol, n)
            THEN << Detail(name, IF rtmrAllowed THEN "ok" ELSE "fail", <<>>) >>
            ELSE << Detail(name, "open", <<"no policy set">>) >>
    ELSE <<>>

\* A variant of ImaBlock that denies when the policy pins files and no log
\* was supplied.
ImaBlock_MissingLogDenies(pol, imaLog) ==
    IF TruthyString(imaLog)
    THEN [evaluated |-> TRUE,
          imaAllowed |-> verifyIMAMeasurementsIn(pol, Get(imaLog)).allowed,
          details |-> verifyIMAMeasurementsIn(pol, Get(imaLog)).details]
    ELSE [evaluated |-> FALSE,
          imaAllowed |-> ~IsDefined(pol.expected_ima_measurements),
          details |-> <<>>]

\* The IMA block of verifyMeasurements: its detail lines and imaAllowed.
ImaBlock(pol, imaLog) ==
    IF TruthyString(imaLog)
    THEN LET imaResult == verifyIMAMeasurementsIn(pol, Get(imaLog))
         IN [evaluated |-> TRUE,
             imaAllowed |-> imaResult.allowed,
             details |-> imaResult.details \o
                (IF ~imaResult.allowed
                 THEN << Detail("IMA", "fail",
                            <<"Verification FAILED", Len(imaResult.missingFiles),
                              Len(imaResult.mismatchedFiles)>>) >>
                 ELSE IF imaResult.checkedFiles > 0
                 THEN << Detail("IMA", "ok", <<"verified", imaResult.checkedFiles>>) >>
                 ELSE <<>>)]
    ELSE [evaluated |-> FALSE, imaAllowed |-> TRUE, details |-> <<>>]

\* !measurements.rtmrN || isRTMRAllowed(measurements.rtmrN, N)
RtmrPasses(pol, rtmr, n) ==
    ~TruthyString(rtmr) \/ isRTMRAllowedIn(pol, Get(rtmr), n)

\* A variant of verifyMeasurementsIn that stops writing the trail at the
\* first failing signal.
verifyMeasurementsIn_StopsAtFirstFailure(pol, measurements) ==
    LET mrtdAllowed == isMRTDAllowedIn(pol, measurements.mrtd)
    IN IF mrtdAllowed
       THEN [allowed |-> /\ RtmrPasses(pol, measurements.rtmr1, 1)
                         /\ RtmrPasses(pol, measurements.rtmr2, 2)
                         /\ RtmrPasses(pol, measurements.rtmr3, 3)
                         /\ ImaBlock(pol, measurements.imaLog).imaAllowed,
             details |-> << Detail("MRTD", "ok", <<>>) >>
                         \o RtmrDetails(pol, measurements.rtmr1, 1, "RTMR1")
                         \o RtmrDetails(pol, measurements.rtmr2, 2, "RTMR2")
                         \o RtmrDetails(pol, measurements.rtmr3, 3, "RTMR3")
                         \o ImaBlock(pol, measurements.imaLog).details]
       ELSE [allowed |-> FALSE, details |-> << Detail("MRTD", "fail", <<>>) >>]

\* verifyMeasurements against an explicit policy object.
verifyMeasurementsIn(pol, measurements) ==
    LET mrtdAllowed == isMRTDAllowedIn(pol, measurements.mrtd)
        ima         == ImaBlock(pol, measurements.imaLog)
        details     ==
            << Detail("MRTD", IF mrtdAllowed THEN "ok" ELSE "fail", <<>>) >>
            \o RtmrDetails(pol, measurements.rtmr1, 1, "RTMR1")
            \o RtmrDetails(pol, measurements.rtmr2, 2, "RTMR2")
            \o RtmrDetails(pol, measurements.rtmr3, 3, "RTMR3")
            \o ima.details
        allowed     ==
            /\ mrtdAllowed
            /\ RtmrPasses(pol, measurements.rtmr1, 1)
            /\ RtmrPasses(pol, measurements.rtmr2, 2)
            /\ RtmrPasses(pol, measurements.rtmr3, 3)
            /\ ima.imaAllowed
    IN [allowed |-> allowed, details |-> details]

\* export function verifyMeasurements(measurements)
verifyMeasurements(measurements) == verifyMeasurementsIn(policy, measurements)

-----------------------------------------------------------------------------
(* The record of the policy function applied last *)

\* The arguments of one application: the string and the register number of
\* isMRTDAllowed / isRTMRAllowed, the measurement set of verifyMeasurements.
NoMeasurements ==
    [mrtd |-> <<>>, rtmr1 |-> undefined, rtmr2 |-> undefined,
     rtmr3 |-> undefined, imaLog |-> undefined]

NoArgs == [value |-> <<>>, rtmrNumber |-> 0, measurements |-> NoMeasurements]

\* A boolean answer in the shape of verifyMeasurements' result.
Answer(b) == [allowed |-> b, details |-> <<>>]

\* verifyIMAMeasurements has not been applied.
NoImaResult ==
    [allowed |-> FALSE, details |-> <<>>, checkedFiles |-> 0,
     missingFiles |-> <<>>, mismatchedFiles |-> <<>>]

-----------------------------------------------------------------------------
(* backend/tdx.ts and backend/tunnel.ts: bytes, digests and inputs *)

\* const TD_REPORT_DATA_SIZE = 64
TD_REPORT_DATA_SIZE == 64

\* How far from TD_REPORT_DATA_SIZE the lengths of the report data handed
\* to getQuote range, on both sides.
MaxDelta == 1

\* How many distinct byte patterns (digests, keys, nonces) the inputs take.
MaxSeed == 2

\* How many clock ticks Date.now() ranges over.
MaxTick == 1

\* How many getQuote calls are in flight together.
NumCalls == 2

\* How many directory names makeTempDir draws from.
NumDirNames == 2

Calls == 1..NumCalls

DirNames == 1..NumDirNames

\* new Uint8Array(n) filled with a pattern that depends on its seed.
Bytes(n, seed) == [i \in 1..n |-> (seed * i) % 256]

Zeros(n) == [i \in 1..n |-> 0]

ReportDataInputs ==
    { Bytes(n, seed) : n \in (TD_REPORT_DATA_SIZE - MaxDelta)..(TD_REPORT_DATA_SIZE + MaxDelta),
                       seed \in 1..MaxSeed }

PublicKeys == { Bytes(32, 16 + seed) : seed \in 1..MaxSeed }

\* crypto.getRandomValues(new Uint8Array(32))
Nonces == { Bytes(32, 32 + seed) : seed \in 1..MaxSeed }

\* Date.now(), in milliseconds.
Times == { 256 * tick + 7 : tick \in 0..MaxTick }

RECURSIVE Pow256(_)
Pow256(k) == IF k = 0 THEN 1 ELSE 256 * Pow256(k - 1)

\* new DataView(iat.buffer).setBigUint64(0, now, false): eight bytes, most
\* significant first. The clock values of the model fit the low three bytes.
BigEndian64(now) ==
    [i \in 1..8 |-> IF i <= 5 THEN 0 ELSE (now \div Pow256(8 - i)) % 256]

RECURSIVE WeightedSum(_, _)
WeightedSum(bytes, k) ==
    IF bytes = <<>> THEN 0
    ELSE (k * (Head(bytes) + 1) + WeightedSum(Tail(bytes), k + 1)) % 65521

\* crypto.subtle.digest("SHA-512", data): a 64-byte digest that depends on
\* every byte of data and on its position.
SHA512(data) ==
    LET w == WeightedSum(data, 1)
    IN [i \in 1..64 |-> ((w + i) * (2 * i + 1) + (w \div 256)) % 256]

\* A variant of padReportData that lays the zero bytes in front of the input.
padReportData_PadsInFront(reportData) ==
    IF Len(reportData) > TD_REPORT_DATA_SIZE
    THEN [error |-> "reportData too large", value |-> <<>>]
    ELSE [error |-> "",
          value |-> Zeros(TD_REPORT_DATA_SIZE - Len(reportData)) \o reportData]

\* A variant of padReportData that cuts an over-long input down to the first
\* TD_REPORT_DATA_SIZE bytes.
padReportData_Truncating(reportData) ==
    [error |-> "",
     value |-> [i \in 1..TD_REPORT_DATA_SIZE |->
                    IF i <= Len(reportData) THEN reportData[i] ELSE 0]]

\* function padReportData(reportData): the padded bytes, or the error thrown.
padReportData(reportData) ==
    IF Len(reportData) = TD_REPORT_DATA_SIZE
    THEN [error |-> "", value |-> reportData]
    ELSE IF Len(reportData) > TD_REPORT_DATA_SIZE
    THEN [error |-> "reportData too large", value |-> <<>>]
    ELSE [error |-> "",
          value |-> [i \in 1..TD_REPORT_DATA_SIZE |->
                         IF i <= Len(reportData) THEN reportData[i] ELSE 0]]

TdxGuest == <<"t", "d", "x", "_", "g", "u", "e", "s", "t">>

\* What the provider file of a request directory may read as.
Providers ==
    { TdxGuest \o <<"\n">>,
      <<" ">> \o TdxGuest,
      TdxGuest \o <<"2", "\n">>,
      <<"s", "e", "v", "\n">>,
      <<>> }

\* provider.trim().startsWith("tdx_guest")
ProviderAccepted(provider) == startsWith(trim(provider), TdxGuest)

-----------------------------------------------------------------------------
(* The state of the backend *)

NoQuote == [report_data |-> <<>>, serial |-> 0]

NoVerifierData == [val |-> <<>>, iat |-> <<>>]

NoResult ==
    [quote |-> NoQuote, verifier_data |-> NoVerifierData, runtime_data |-> FALSE]

\* One getQuote call before it starts.
IdleCall ==
    [pc               |-> "idle",
     kind             |-> "none",        \* "tdx": getQuote of tdx.ts called
                                         \* directly; "tunnel": getQuote of tunnel.ts
     x25519PublicKey  |-> <<>>,
     verifierData     |-> NoVerifierData,
     reportData       |-> <<>>,          \* the argument of tdx.ts getQuote
     paddedReportData |-> <<>>,
     tempDir          |-> undefined,     \* the directory makeTempDir returned
     touched          |-> FALSE,         \* the call has used the TSM interface
     quote            |-> NoQuote,       \* what the call read from outblob
     provider         |-> <<>>,          \* what the call read from provider
     providerRead     |-> FALSE,
     error            |-> "",            \* the error the call has thrown
     removed          |-> undefined,     \* the directory Deno.remove was called on
     cleanupFailed    |-> FALSE,         \* Deno.remove threw and was logged
     returned         |-> FALSE,         \* the call has returned a value
     result           |-> NoResult]

NoDir == [exists |-> FALSE, inblob |-> undefined]

\* No measurement has been extracted.
NoExtraction ==
    [op |-> "none", quote |-> <<>>,
     error |-> [message |-> "", length |-> 0],
     mrtd |-> undefined, rtmrs |-> undefined, logged |-> FALSE,
     returned |-> undefined]

ServerIdle ==
    /\ calls = [c \in Calls |-> IdleCall]
    /\ dirs = [d \in DirNames |-> NoDir]
    /\ generation = 0
    /\ extraction = NoExtraction

PolicyIdle ==
    /\ evalOp = "none"
    /\ evalArgs = NoArgs
    /\ evalResult = Answer(FALSE)
    /\ imaOutcome = NoImaResult
    /\ normalizeResult = <<>>

\* let handshakeDetails = { serverPubkey: null, nonce: null, iat: null,
\* reportData: null }
NoHandshakeDetails ==
    [serverPubkey |-> undefined, nonce |-> undefined, iat |-> undefined,
     reportData |-> undefined]

\* No binding step has run yet.
NoHandshake ==
    [count |-> 0,
     serverX25519PublicKey |-> undefined,
     verifierData |-> undefined,
     report_data |-> Zeros(TD_REPORT_DATA_SIZE),
     returned |-> FALSE]

\* No handshake has been started.
NoBinding ==
    [round |-> 0, stage |-> "idle", nonce |-> <<>>, iat |-> <<>>, key |-> <<>>,
     server |-> <<>>, client |-> <<>>, debug |-> <<>>, debugError |-> ""]

ClientIdle ==
    /\ handshakeDetails = NoHandshakeDetails
    /\ handshake = NoHandshake
    /\ binding = NoBinding

\* verifyTdxQuote has not been called and nothing is rendered: no quote, no
\* answer to the IMA log request, no measurements, no verdict, no policy
\* note on the page.
NoVerifyRun ==
    [stage |-> "idle",
     quote |-> [header |-> undefined, body |-> undefined],
     response |-> [outcome |-> "none", text |-> <<>>],
     threw |-> FALSE,
     measurements |-> NoMeasurements,
     verification |-> Answer(FALSE),
     returned |-> FALSE,
     note |-> [text |-> "", values |-> 0, fromQuery |-> FALSE]]

\* The page was opened without ?mrtd= and has verified nothing.
PageIdle ==
    /\ queryMrtd = undefined
    /\ verifyRun = NoVerifyRun

\* No log text has been parsed.
NoParseRun ==
    [stage |-> "idle", log |-> <<>>, entries |-> <<>>, backendEntries |-> <<>>]

ParserIdle == parseRun = NoParseRun

-----------------------------------------------------------------------------
(* Inputs of the policy functions *)

\* Longest candidate string handed to isMRTDAllowed and isRTMRAllowed.
MaxLen == 3

\* The characters of a measurement string: the two hex digits 0 and a, the
\* upper-case A, and the x / X of the prefix.
HexAlphabet == {"0", "x", "X", "a", "A"}

Strs(n) == UNION {[1..k -> HexAlphabet] : k \in 0..n}

\* No prefix, or the prefix in either letter case.
HexPrefixes == { <<>>, <<"0", "x">>, <<"0", "X">> }

\* allowed_mrtd: empty, one entry with an upper-case prefix, two entries.
MrtdLists == { <<>>, << <<"0", "X", "a">> >>, << <<"A", "0">>, <<"0", "x", "a", "a">> >> }

\* allowed_rtmrN is optional: absent, empty, or pinned.
Rtmr1Lists == { undefined, Some(<<>>), Some(<< <<"0", "x", "A">> >>) }
Rtmr2Lists == { undefined, Some(<< <<"a">> >>) }
Rtmr3Lists == { Some(<<>>), Some(<< <<"0", "X", "A">>, <<"0">> >>) }

PathA == <<"/", "a">>
PathB == <<"/", "b">>

\* expected_ima_measurements is optional: absent, empty, one pinned file, or
\* two pinned files.
ImaExpectations ==
    { undefined, Some(<<>>), Some(<< [path |-> PathA, hash |-> <<"A", "b">>] >>),
      Some(<< [path |-> PathA, hash |-> <<"A", "b">>],
              [path |-> PathB, hash |-> <<"a", "a">>] >>) }

Policies ==
    [allowed_mrtd : MrtdLists,
     allowed_rtmr1 : Rtmr1Lists,
     allowed_rtmr2 : Rtmr2Lists,
     allowed_rtmr3 : Rtmr3Lists,
     expected_ima_measurements : ImaExpectations]

\* One line of /sys/kernel/security/ima/ascii_runtime_measurements.
LogLine(fileHash, filePath) ==
    <<"1", "0", " ", "h", " ", "t", " ">> \o fileHash \o <<" ">> \o filePath

LogMatching == LogLine(<<"s", ":", "a", "b">>, PathA)
LogMismatched == LogLine(<<"s", ":", "a", "a">>, PathA) \o <<"\n">>
LogWithoutFile == LogLine(<<"s", ":", "a", "b">>, PathB) \o <<"\n">>

\* imaLog is optional: not fetched, the empty text, or a log text.
ImaLogs == { undefined, Some(<<>>), Some(LogMatching), Some(LogMismatched),
             Some(LogWithoutFile) }

\* A register of the candidate: not supplied, empty, or a value.
RegisterValues == { undefined, Some(<<>>), Some(<<"0", "x", "a">>), Some(<<"0">>) }

MrtdValues == { <<>>, <<"0", "x", "A">>, <<"a", "a">>, <<"0", "0">> }

MeasurementSets ==
    [mrtd : MrtdValues, rtmr1 : RegisterValues, rtmr2 : RegisterValues,
     rtmr3 : RegisterValues, imaLog : ImaLogs]

\* Most lines of a log text handed to verifyIMAMeasurements.
MaxLogLines == 2

\* The file-hash field of a log line: algorithm:hexhash in either letter
\* case, or the bare hash.
FileHashes ==
    { <<"s", ":", "a", "b">>, <<"s", ":", "A", "B">>, <<"a", "B">>,
      <<"s", ":", "a", "a">> }

\* The lines of a log: a measurement of PathA or PathB, or a line with fewer
\* than five fields.
LogLines ==
    { LogLine(fileHash, filePath) : fileHash \in FileHashes, filePath \in {PathA, PathB} }
    \cup { <<"1", "0", " ", "h">> }

RECURSIVE JoinLines(_)
JoinLines(lines) ==
    IF lines = <<>> THEN <<>>
    ELSE Head(lines) \o <<"\n">> \o JoinLines(Tail(lines))

\* The log texts of up to MaxLogLines lines, each line ended by a newline.
LogTexts ==
    { JoinLines(lines) : lines \in UNION { [1..k -> LogLines] : k \in 0..MaxLogLines } }

-----------------------------------------------------------------------------
(* The policy functions applied to one input each *)

InitPolicy ==
    /\ policy \in Policies
    /\ PolicyIdle
    /\ USE_REAL_TDX = TRUE
    /\ ServerIdle
    /\ ClientIdle
    /\ PageIdle
    /\ ParserIdle

CallIsMRTDAllowed ==
    /\ evalOp = "none"
    /\ \E mrtd \in Strs(MaxLen) :
         /\ evalOp' = "isMRTDAllowed"
         /\ evalArgs' = [NoArgs EXCEPT !.value = mrtd]
         /\ evalResult' = Answer(isMRTDAllowed(mrtd))
    /\ UNCHANGED <<policy, imaOutcome, normalizeResult, serverVars, clientVars, pageVars, parserVars>>

CallIsRTMRAllowed ==
    /\ evalOp = "none"
    /\ \E rtmr \in Strs(MaxLen), rtmrNumber \in 1..3 :
         /\ evalOp' = "isRTMRAllowed"
         /\ evalArgs' = [NoArgs EXCEPT !.value = rtmr, !.rtmrNumber = rtmrNumber]
         /\ evalResult' = Answer(isRTMRAllowed(rtmr, rtmrNumber))
    /\ UNCHANGED <<policy, imaOutcome, normalizeResult, serverVars, clientVars, pageVars, parserVars>>

CallVerifyMeasurements ==
    /\ evalOp = "none"
    /\ \E measurements \in MeasurementSets :
         /\ evalOp' = "verifyMeasurements"
         /\ evalArgs' = [NoArgs EXCEPT !.measurements = measurements]
         /\ evalResult' = verifyMeasurements(measurements)
    /\ UNCHANGED <<policy, imaOutcome, normalizeResult, serverVars, clientVars, pageVars, parserVars>>

CallVerifyIMAMeasurements ==
    /\ evalOp = "none"
    /\ \E imaLog \in LogTexts :
         /\ evalOp' = "verifyIMAMeasurements"
         /\ evalArgs' = [NoArgs EXCEPT !.value = imaLog]
         /\ imaOutcome' = verifyIMAMeasurements(imaLog)
    /\ UNCHANGED <<policy, evalResult, normalizeResult, serverVars, clientVars, pageVars, parserVars>>

\* normalizeMeasurement applied to a string written without a prefix or with
\* the prefix 0x or 0X in front of it.
CallNormalizeMeasurement ==
    /\ evalOp = "none"
    /\ \E prefix \in HexPrefixes, measurement \in Strs(MaxLen) :
         /\ evalOp' = "normalizeMeasurement"
         /\ evalArgs' = [NoArgs EXCEPT !.value = prefix \o measurement]
         /\ normalizeResult' = normalizeMeasurement(prefix \o measurement)
    /\ UNCHANGED <<policy, evalResult, imaOutcome, serverVars, clientVars, pageVars, parserVars>>

NextPolicy ==
    \/ CallNormalizeMeasurement
    \/ CallIsMRTDAllowed
    \/ CallIsRTMRAllowed
    \/ CallVerifyMeasurements
    \/ CallVerifyIMAMeasurements

SpecPolicy == InitPolicy /\ [][NextPolicy]_vars

-----------------------------------------------------------------------------
(* backend/tdx.ts: the report client, and backend/tunnel.ts: getQuote *)

\* export const policy of shared/policy.ts, in the alphabet of the model: one
\* MRTD, one RTMR1, no RTMR2 / RTMR3 list, pinned IMA hashes.
DeployedPolicy ==
    [allowed_mrtd |-> << <<"0", "x", "a">> >>,
     allowed_rtmr1 |-> Some(<< <<"0", "x", "a", "0">> >>),
     allowed_rtmr2 |-> undefined,
     allowed_rtmr3 |-> undefined,
     expected_ima_measurements |-> Some(<< [path |-> PathA, hash |-> <<"a", "b">>] >>)]

Init ==
    /\ policy = DeployedPolicy
    /\ PolicyIdle
    /\ USE_REAL_TDX \in BOOLEAN
    /\ ServerIdle
    /\ ClientIdle
    /\ PageIdle
    /\ ParserIdle

Throw(call, message) == [call EXCEPT !.pc = "done", !.error = message]

\* tdx.ts getQuote up to its first await: padReportData, then the length
\* check of getQuoteViaConfigFS, then the call of Deno.makeTempDir.
EnterGetQuote(call, reportData) ==
    LET padded == padReportData(reportData)
        given  == [call EXCEPT !.reportData = reportData]
    IN IF padded.error # ""
       THEN Throw(given, padded.error)
       ELSE IF Len(padded.value) # TD_REPORT_DATA_SIZE
       THEN Throw(given, "reportData must be 64 bytes")
       ELSE [given EXCEPT !.paddedReportData = padded.value,
                          !.pc = "makeTempDir"]

\* export async function getQuote(reportData) of tdx.ts, called directly.
GetQuote(c) ==
    /\ calls[c].pc = "idle"
    /\ \E reportData \in ReportDataInputs :
         calls' = [calls EXCEPT ![c] =
                      EnterGetQuote([@ EXCEPT !.kind = "tdx"], reportData)]
    /\ UNCHANGED <<USE_REAL_TDX, dirs, generation, extraction, policyVars, clientVars, pageVars, parserVars>>

\* A variant of TunnelGetQuote that answers with the sample quote of
\* samples.ts when USE_REAL_TDX is not enabled.
TunnelGetQuote_SampleFallback(c) ==
    /\ calls[c].pc = "idle"
    /\ \E x25519PublicKey \in PublicKeys, nonce \in Nonces, now \in Times :
         LET call == [calls[c] EXCEPT !.kind = "tunnel",
                                      !.x25519PublicKey = x25519PublicKey]
         IN IF ~USE_REAL_TDX
            THEN calls' = [calls EXCEPT ![c] =
                              [call EXCEPT !.pc = "done", !.returned = TRUE,
                                           !.result = [NoResult EXCEPT !.quote =
                                               [report_data |-> Zeros(TD_REPORT_DATA_SIZE),
                                                serial |-> 0]]]]
            ELSE calls' = [calls EXCEPT ![c] =
                              EnterGetQuote(
                                [call EXCEPT !.verifierData =
                                    [val |-> nonce, iat |-> BigEndian64(now)]],
                                SHA512(nonce \o BigEndian64(now) \o x25519PublicKey))]
    /\ UNCHANGED <<USE_REAL_TDX, dirs, generation, extraction, policyVars, clientVars, pageVars, parserVars>>

\* async function getQuote(x25519PublicKey) of tunnel.ts up to the first
\* await inside getTdxQuote.
TunnelGetQuote(c) ==
    /\ calls[c].pc = "idle"
    /\ \E x25519PublicKey \in PublicKeys, nonce \in Nonces, now \in Times :
         LET call == [calls[c] EXCEPT !.kind = "tunnel",
                                      !.x25519PublicKey = x25519PublicKey]
         IN IF ~USE_REAL_TDX
            THEN calls' = [calls EXCEPT ![c] =
                              Throw(call, "USE_REAL_TDX is not enabled")]
            ELSE LET iat          == BigEndian64(now)
                     verifierData == [val |-> nonce, iat |-> iat]
                     combined     == nonce \o iat \o x25519PublicKey
                     reportData   == SHA512(combined)
                 IN calls' = [calls EXCEPT ![c] =
                                 EnterGetQuote([call EXCEPT !.verifierData = verifierData],
                                               reportData)]
    /\ UNCHANGED <<USE_REAL_TDX, dirs, generation, extraction, policyVars, clientVars, pageVars, parserVars>>

\* A variant of MakeTempDir that always uses the first directory name, as
\* Deno.mkdir(path, {recursive: true}) on a fixed path would.
MakeTempDir_FixedName(c) ==
    /\ calls[c].pc = "makeTempDir"
    /\ LET name == 1
       IN /\ dirs' = [dirs EXCEPT ![name] =
                         [exists |-> TRUE,
                          inblob |-> IF @.exists THEN @.inblob ELSE undefined]]
          /\ calls' = [calls EXCEPT ![c].tempDir = Some(name),
                                    ![c].touched = TRUE,
                                    ![c].pc = "writeFile"]
    /\ UNCHANGED <<USE_REAL_TDX, generation, extraction, policyVars, clientVars, pageVars, parserVars>>

\* await Deno.makeTempDir({dir: TSM_REPORT_PATH, prefix: "request_"}): makes
\* a directory under a name that does not exist yet, or throws. It runs
\* before the try block, so its error leaves the call at once.
MakeTempDir(c) ==
    /\ calls[c].pc = "makeTempDir"
    /\ \/ \E name \in DirNames :
            /\ ~dirs[name].exists
            /\ dirs' = [dirs EXCEPT ![name] = [exists |-> TRUE, inblob |-> undefined]]
            /\ calls' = [calls EXCEPT ![c].tempDir = Some(name),
                                      ![c].touched = TRUE,
                                      ![c].pc = "writeFile"]
       \/ /\ calls' = [calls EXCEPT ![c] =
                          Throw([@ EXCEPT !.touched = TRUE], "makeTempDir failed")]
          /\ UNCHANGED dirs
    /\ UNCHANGED <<USE_REAL_TDX, generation, extraction, policyVars, clientVars, pageVars, parserVars>>

\* A variant of WriteInblob that starts the exchange again with a new
\* request context when the write fails.
WriteInblob_RetriesOnError(c) ==
    /\ calls[c].pc = "writeFile"
    /\ \/ /\ dirs' = [dirs EXCEPT ![Get(calls[c].tempDir)].inblob =
                         Some(calls[c].paddedReportData)]
          /\ calls' = [calls EXCEPT ![c].pc = "readFile"]
       \/ /\ calls' = [calls EXCEPT ![c].pc = "makeTempDir"]
          /\ dirs' = [dirs EXCEPT ![Get(calls[c].tempDir)] = NoDir]
    /\ UNCHANGED <<USE_REAL_TDX, generation, extraction, policyVars, clientVars, pageVars, parserVars>>

\* await Deno.writeFile(`${tempDir}/inblob`, reportData)
WriteInblob(c) ==
    /\ calls[c].pc = "writeFile"
    /\ \/ /\ dirs' = [dirs EXCEPT ![Get(calls[c].tempDir)].inblob =
                         Some(calls[c].paddedReportData)]
          /\ calls' = [calls EXCEPT ![c].pc = "readFile"]
       \/ /\ calls' = [calls EXCEPT ![c].error = "writeFile failed",
                                    ![c].pc = "finally"]
          /\ UNCHANGED dirs
    /\ UNCHANGED <<USE_REAL_TDX, generation, extraction, policyVars, clientVars, pageVars, parserVars>>

\* The quote the TSM provider produces on a read of outblob: it carries the
\* report data last written to inblob of that directory.
QuoteOf(dir, serial) ==
    [report_data |-> IF IsDefined(dir.inblob) THEN Get(dir.inblob) ELSE <<>>,
     serial |-> serial]

\* A variant of ReadOutblob whose I/O error leaves the call without running
\* the finally block.
ReadOutblob_ErrorSkipsFinally(c) ==
    /\ calls[c].pc = "readFile"
    /\ \/ /\ calls' = [calls EXCEPT ![c].quote =
                          QuoteOf(dirs[Get(calls[c].tempDir)], generation + 1),
                                    ![c].pc = "readTextFile"]
          /\ generation' = generation + 1
       \/ /\ calls' = [calls EXCEPT ![c] = Throw(@, "readFile failed")]
          /\ UNCHANGED generation
    /\ UNCHANGED <<USE_REAL_TDX, dirs, extraction, policyVars, clientVars, pageVars, parserVars>>

\* const quote = await Deno.readFile(`${tempDir}/outblob`)
ReadOutblob(c) ==
    /\ calls[c].pc = "readFile"
    /\ \/ /\ calls' = [calls EXCEPT ![c].quote =
                          QuoteOf(dirs[Get(calls[c].tempDir)], generation + 1),
                                    ![c].pc = "readTextFile"]
          /\ generation' = generation + 1
       \/ /\ calls' = [calls EXCEPT ![c].error = "readFile failed",
                                    ![c].pc = "finally"]
          /\ UNCHANGED generation
    /\ UNCHANGED <<USE_REAL_TDX, dirs, extraction, policyVars, clientVars, pageVars, parserVars>>

\* const provider = await Deno.readTextFile(`${tempDir}/provider`), and the
\* check that follows it.
ReadProvider(c) ==
    /\ calls[c].pc = "readTextFile"
    /\ \/ \E provider \in Providers :
            calls' = [calls EXCEPT
                         ![c].provider = provider,
                         ![c].providerRead = TRUE,
                         ![c].error = IF ProviderAccepted(provider) THEN ""
                                      ELSE "Unexpected provider",
                         ![c].pc = "finally"]
       \/ calls' = [calls EXCEPT ![c].error = "readTextFile failed",
                                 ![c].pc = "finally"]
    /\ UNCHANGED <<USE_REAL_TDX, dirs, generation, extraction, policyVars, clientVars, pageVars, parserVars>>

\* A variant of AfterFinally in which a failed Deno.remove is thrown instead
\* of logged.
AfterFinally_RemoveErrorEscalates(call) ==
    IF call.cleanupFailed THEN [call EXCEPT !.pc = "done", !.error = "remove failed"]
    ELSE IF call.error # "" THEN [call EXCEPT !.pc = "done"]
    ELSE IF call.kind = "tunnel" THEN [call EXCEPT !.pc = "readIMA"]
    ELSE [call EXCEPT !.pc = "done", !.returned = TRUE,
                      !.result = [NoResult EXCEPT !.quote = call.quote]]

\* How a call leaves getQuoteViaConfigFS once the finally block has run: an
\* error propagates through tdx.ts getQuote and tunnel.ts getQuote; a quote
\* is returned by tdx.ts getQuote (its measurement logging changes nothing)
\* and, in the tunnel, the IMA log is read next.
AfterFinally(call) ==
    IF call.error # "" THEN [call EXCEPT !.pc = "done"]
    ELSE IF call.kind = "tunnel" THEN [call EXCEPT !.pc = "readIMA"]
    ELSE [call EXCEPT !.pc = "done", !.returned = TRUE,
                      !.result = [NoResult EXCEPT !.quote = call.quote]]

\* finally { try { await Deno.remove(tempDir) } catch { console.warn } }
Finally(c) ==
    /\ calls[c].pc = "finally"
    /\ LET name == Get(calls[c].tempDir)
       IN \/ /\ dirs' = [dirs EXCEPT ![name] = NoDir]
             /\ calls' = [calls EXCEPT ![c] =
                             AfterFinally([@ EXCEPT !.removed = Some(name)])]
          \/ /\ UNCHANGED dirs
             /\ calls' = [calls EXCEPT ![c] =
                             AfterFinally([@ EXCEPT !.removed = Some(name),
                                                    !.cleanupFailed = TRUE])]
    /\ UNCHANGED <<USE_REAL_TDX, generation, extraction, policyVars, clientVars, pageVars, parserVars>>

\* A variant of ReadIMA that takes the verifier data from a slot shared by
\* all calls, the one the first call wrote.
ReadIMA_SharedVerifierData(c) ==
    /\ calls[c].pc = "readIMA"
    /\ \E imaAvailable \in BOOLEAN :
         calls' = [calls EXCEPT
                      ![c].pc = "done",
                      ![c].returned = TRUE,
                      ![c].result = [quote |-> calls[c].quote,
                                     verifier_data |-> calls[1].verifierData,
                                     runtime_data |-> imaAvailable]]
    /\ UNCHANGED <<USE_REAL_TDX, dirs, generation, extraction, policyVars, clientVars, pageVars, parserVars>>

\* tunnel.ts getQuote after getTdxQuote: the IMA log is read; with it or
\* without it the QuoteData is returned.
ReadIMA(c) ==
    /\ calls[c].pc = "readIMA"
    /\ \E imaAvailable \in BOOLEAN :
         calls' = [calls EXCEPT
                      ![c].pc = "done",
                      ![c].returned = TRUE,
                      ![c].result = [quote |-> calls[c].quote,
                                     verifier_data |-> calls[c].verifierData,
                                     runtime_data |-> imaAvailable]]
    /\ UNCHANGED <<USE_REAL_TDX, dirs, generation, extraction, policyVars, clientVars, pageVars, parserVars>>

Next ==
    \E c \in Calls :
        \/ GetQuote(c)
        \/ TunnelGetQuote(c)
        \/ MakeTempDir(c)
        \/ WriteInblob(c)
        \/ ReadOutblob(c)
        \/ ReadProvider(c)
        \/ Finally(c)
        \/ ReadIMA(c)

Spec == Init /\ [][Next]_vars

-----------------------------------------------------------------------------
(* backend/tdx.ts: extraction of MRTD and RTMRs from a quote *)

MRTD_OFFSET == 184

MRTD_SIZE == 48

RTMR_SIZE == 48

RTMR0_OFFSET == 376

RTMR1_OFFSET == 424

RTMR2_OFFSET == 472

RTMR3_OFFSET == 520

HexDigits == <<"0", "1", "2", "3", "4", "5", "6", "7", "8", "9",
               "a", "b", "c", "d", "e", "f">>

\* b.toString(16)
toString16(b) ==
    IF b < 16 THEN << HexDigits[b + 1] >>
    ELSE << HexDigits[(b \div 16) + 1], HexDigits[(b % 16) + 1] >>

\* A variant of byteToHex without padStart.
byteToHex_NoPad(b) == toString16(b)

\* b.toString(16).padStart(2, '0')
byteToHex(b) ==
    IF Len(toString16(b)) < 2 THEN <<"0">> \o toString16(b) ELSE toString16(b)

RECURSIVE JoinHex(_)
JoinHex(bytes) ==
    IF bytes = <<>> THEN <<>> ELSE byteToHex(Head(bytes)) \o JoinHex(Tail(bytes))

\* '0x' + Array.from(bytes).map(b => b.toString(16).padStart(2, '0')).join('')
bytesToHex(bytes) == <<"0", "x">> \o JoinHex(bytes)

\* Uint8Array.prototype.slice(start, end): clamped to the array.
slice(bytes, start, end) ==
    SubSeq(bytes, start + 1, IF end < Len(bytes) THEN end ELSE Len(bytes))

TooSmall(message, quote) == [message |-> message, length |-> Len(quote)]

NoError == [message |-> "", length |-> 0]

\* function extractMRTD(quote): the MRTD, or the error thrown.
extractMRTD(quote) ==
    IF Len(quote) < MRTD_OFFSET + MRTD_SIZE
    THEN [error |-> TooSmall("Quote too small", quote), value |-> undefined]
    ELSE [error |-> NoError,
          value |-> Some(bytesToHex(slice(quote, MRTD_OFFSET, MRTD_OFFSET + MRTD_SIZE)))]

\* The RTMRs object built by extractRTMRs.
SliceRTMRs(quote) ==
    [rtmr0 |-> bytesToHex(slice(quote, RTMR0_OFFSET, RTMR0_OFFSET + RTMR_SIZE)),
     rtmr1 |-> bytesToHex(slice(quote, RTMR1_OFFSET, RTMR1_OFFSET + RTMR_SIZE)),
     rtmr2 |-> bytesToHex(slice(quote, RTMR2_OFFSET, RTMR2_OFFSET + RTMR_SIZE)),
     rtmr3 |-> bytesToHex(slice(quote, RTMR3_OFFSET, RTMR3_OFFSET + RTMR_SIZE))]

\* A variant of extractRTMRs that tests the length against the end of RTMR0.
extractRTMRs_ChecksFirstField(quote) ==
    IF Len(quote) < RTMR0_OFFSET + RTMR_SIZE
    THEN [error |-> TooSmall("Quote too small for RTMR extraction", quote),
          value |-> undefined]
    ELSE [error |-> NoError, value |-> Some(SliceRTMRs(quote))]

\* function extractRTMRs(quote): the four RTMRs, or the error thrown.
extractRTMRs(quote) ==
    IF Len(quote) < RTMR3_OFFSET + RTMR_SIZE
    THEN [error |-> TooSmall("Quote too small for RTMR extraction", quote),
          value |-> undefined]
    ELSE [error |-> NoError, value |-> Some(SliceRTMRs(quote))]

\* How many of the byte patterns 0..MaxPattern the artifacts are filled with.
MaxPattern == 2

\* The lengths of the artifacts: empty, around the end of each of the five
\* fields, and a quote with a signature behind the body.
QuoteLengths ==
    {0, RTMR3_OFFSET + RTMR_SIZE + TD_REPORT_DATA_SIZE}
    \cup { offset + RTMR_SIZE + delta :
             offset \in {MRTD_OFFSET, RTMR0_OFFSET, RTMR1_OFFSET, RTMR2_OFFSET, RTMR3_OFFSET},
             delta \in (0 - MaxDelta)..MaxDelta }

\* The artifacts handed to the extraction.
Quotes == { Bytes(n, pattern) : n \in QuoteLengths, pattern \in 0..MaxPattern }

\* extractMRTD applied to an artifact.
ExtractMRTD ==
    /\ extraction.op = "none"
    /\ \E quote \in Quotes :
         extraction' = [NoExtraction EXCEPT
                           !.op = "extractMRTD", !.quote = quote,
                           !.error = extractMRTD(quote).error,
                           !.mrtd = extractMRTD(quote).value]
    /\ UNCHANGED <<USE_REAL_TDX, calls, dirs, generation, policyVars, clientVars, pageVars, parserVars>>

\* extractRTMRs applied to an artifact.
ExtractRTMRs ==
    /\ extraction.op = "none"
    /\ \E quote \in Quotes :
         extraction' = [NoExtraction EXCEPT
                           !.op = "extractRTMRs", !.quote = quote,
                           !.error = extractRTMRs(quote).error,
                           !.rtmrs = extractRTMRs(quote).value]
    /\ UNCHANGED <<USE_REAL_TDX, calls, dirs, generation, policyVars, clientVars, pageVars, parserVars>>

\* Step 3 of getQuote: extractMRTD, then extractRTMRs, then the log of all
\* five values; an error of either extraction is caught and logged as a
\* warning and nothing else is logged. After the try / catch: return quote.
ExtractAndLog ==
    /\ extraction.op = "none"
    /\ \E quote \in Quotes :
         extraction' =
            IF extractMRTD(quote).error # NoError
            THEN [NoExtraction EXCEPT !.op = "getQuote", !.quote = quote,
                                      !.error = extractMRTD(quote).error,
                                      !.returned = Some(quote)]
            ELSE IF extractRTMRs(quote).error # NoError
            THEN [NoExtraction EXCEPT !.op = "getQuote", !.quote = quote,
                                      !.error = extractRTMRs(quote).error,
                                      !.returned = Some(quote)]
            ELSE [NoExtraction EXCEPT !.op = "getQuote", !.quote = quote,
                                      !.mrtd = extractMRTD(quote).value,
                                      !.rtmrs = extractRTMRs(quote).value,
                                      !.logged = TRUE,
                                      !.returned = Some(quote)]
    /\ UNCHANGED <<USE_REAL_TDX, calls, dirs, generation, policyVars, clientVars, pageVars, parserVars>>

InitExtract ==
    /\ policy = DeployedPolicy
    /\ PolicyIdle
    /\ USE_REAL_TDX = TRUE
    /\ ServerIdle
    /\ ClientIdle
    /\ PageIdle
    /\ ParserIdle

NextExtract ==
    \/ ExtractMRTD
    \/ ExtractRTMRs
    \/ ExtractAndLog

SpecExtract == InitExtract /\ [][NextExtract]_vars

-----------------------------------------------------------------------------
(* The browser's X25519 binding step (frontend/src/App.tsx) *)

\* How many handshakes the page runs.
MaxHandshakes == 2

\* client.reportBindingData?.verifierData: absent, or an object whose val and
\* iat may each be absent.
VerifierDatas ==
    {undefined} \cup
    { Some([val |-> val, iat |-> iat]) :
        val \in {undefined} \cup { Some(nonce) : nonce \in Nonces },
        iat \in {undefined} \cup { Some(BigEndian64(now)) : now \in Times } }

\* The TunnelClient objects handed to the binding step.
Clients ==
    [serverX25519PublicKey : {undefined} \cup { Some(key) : key \in PublicKeys },
     verifierData : VerifierDatas]

\* quote.body.report_data of the quote the server sent in the handshake: a
\* Freshness Binding digest, or 64 zero bytes.
QuoteReportDatas ==
    { SHA512(nonce \o BigEndian64(now) \o key) :
        nonce \in Nonces, now \in Times, key \in PublicKeys }
    \cup {Zeros(TD_REPORT_DATA_SIZE)}

\* client.reportBindingData?.verifierData?.val
VerifierVal(client) ==
    IF IsDefined(client.verifierData) THEN Get(client.verifierData).val ELSE undefined

\* client.reportBindingData?.verifierData?.iat
VerifierIat(client) ==
    IF IsDefined(client.verifierData) THEN Get(client.verifierData).iat ELSE undefined

\* The three conditional stores into handshakeDetails, followed by the
\* recomputation of handshakeDetails.reportData when all three are set.
StoreHandshakeDetails(details, client) ==
    LET stored ==
            [details EXCEPT
                !.serverPubkey = IF IsDefined(client.serverX25519PublicKey)
                                 THEN client.serverX25519PublicKey ELSE @,
                !.nonce = IF IsDefined(VerifierVal(client))
                          THEN VerifierVal(client) ELSE @,
                !.iat = IF IsDefined(VerifierIat(client))
                        THEN VerifierIat(client) ELSE @]
    IN IF IsDefined(stored.nonce) /\ IsDefined(stored.iat) /\ IsDefined(stored.serverPubkey)
       THEN [stored EXCEPT !.reportData =
                Some(SHA512(Get(stored.nonce) \o Get(stored.iat) \o Get(stored.serverPubkey)))]
       ELSE stored

\* async function logAndVerifyX25519Binding(client): it stores and logs the
\* handshake values and returns true.
LogAndVerifyX25519Binding ==
    /\ handshake.count < MaxHandshakes
    /\ \E client \in Clients, report_data \in QuoteReportDatas :
         /\ handshakeDetails' = StoreHandshakeDetails(handshakeDetails, client)
         /\ handshake' = [count |-> handshake.count + 1,
                          serverX25519PublicKey |-> client.serverX25519PublicKey,
                          verifierData |-> client.verifierData,
                          report_data |-> report_data,
                          returned |-> TRUE]
    /\ UNCHANGED <<policyVars, serverVars, binding, pageVars, parserVars>>

InitBinding ==
    /\ policy = DeployedPolicy
    /\ PolicyIdle
    /\ USE_REAL_TDX = TRUE
    /\ ServerIdle
    /\ ClientIdle
    /\ PageIdle
    /\ ParserIdle

NextBinding == LogAndVerifyX25519Binding

SpecBinding == InitBinding /\ [][NextBinding]_vars

\* The handshake's nonce, iat and server key are all available to the client.
HandshakeInputsAvailable ==
    /\ IsDefined(handshake.serverX25519PublicKey)
    /\ IsDefined(handshake.verifierData)
    /\ IsDefined(Get(handshake.verifierData).val)
    /\ IsDefined(Get(handshake.verifierData).iat)

\* C4: the binding step answers true only if the nonce, iat and server key
\* of the handshake are available and the quote's report_data equals
\* SHA-512(nonce || iat || key) of them; otherwise it answers false.
C4_BindingStepRejectsMismatch ==
    (handshake.count > 0 /\ handshake.returned) =>
        /\ HandshakeInputsAvailable
        /\ handshake.report_data =
              SHA512(Get(Get(handshake.verifierData).val)
                     \o Get(Get(handshake.verifierData).iat)
                     \o Get(handshake.serverX25519PublicKey))

-----------------------------------------------------------------------------
(* report_data = SHA-512(nonce || iat || key) at the tunnel server, in the
   page and at the debug endpoint *)

\* TypedArray.prototype.set(source, offset) on a buffer long enough.
SetAt(buffer, source, offset) ==
    [i \in 1..Len(buffer) |->
        IF i > offset /\ i <= offset + Len(source) THEN source[i - offset] ELSE buffer[i]]

\* A variant of computeReportData that lays the key in front of nonce and iat.
computeReportData_KeyFirst(nonce, iat, x25519PublicKey) ==
    SHA512(x25519PublicKey \o nonce \o iat)

\* backend/debug.ts: export async function computeReportData
computeReportData(nonce, iat, x25519PublicKey) ==
    LET empty    == Zeros(Len(nonce) + Len(iat) + Len(x25519PublicKey))
        combined == SetAt(SetAt(SetAt(empty, nonce, 0), iat, Len(nonce)),
                          x25519PublicKey, Len(nonce) + Len(iat))
    IN SHA512(combined)

\* Array.from(bytes).map(b => b.toString(16).padStart(2, '0')).join('')
toHex(bytes) == JoinHex(bytes)

\* parseInt(pair, 16) of two lower-case hex digits.
ParseHexPair(hi, lo) ==
    16 * ((CHOOSE k \in 1..16 : HexDigits[k] = hi) - 1)
       + ((CHOOSE k \in 1..16 : HexDigits[k] = lo) - 1)

\* backend/debug.ts: function hexToBytes(hex)
hexToBytes(hex) ==
    LET clean == StripHexPrefix(hex)
    IN [i \in 1..(Len(clean) \div 2) |-> ParseHexPair(clean[2 * i - 1], clean[2 * i])]

\* POST /debug/handshake-bytes with pubkey, nonce and iat present in the body:
\* the length checks, then computeReportData.
HandshakeBytes(pubkeyHex, nonceHex, iatHex) ==
    LET pubkey == hexToBytes(pubkeyHex)
        nonce  == hexToBytes(nonceHex)
        iat    == hexToBytes(iatHex)
    IN IF Len(pubkey) # 32 THEN [error |-> "Invalid pubkey length", report_data |-> <<>>]
       ELSE IF Len(nonce) # 32 THEN [error |-> "Invalid nonce length", report_data |-> <<>>]
       ELSE IF Len(iat) # 8 THEN [error |-> "Invalid iat length", report_data |-> <<>>]
       ELSE [error |-> "", report_data |-> computeReportData(nonce, iat, pubkey)]

\* backend/tunnel.ts getQuote, lines 50-73: the server draws nonce and iat
\* and computes the report_data for the client's key.
TunnelBinds ==
    /\ binding.stage \in {"idle", "debug"}
    /\ binding.round < MaxHandshakes
    /\ \E x25519PublicKey \in PublicKeys, nonce \in Nonces, now \in Times :
         LET iat        == BigEndian64(now)
             combined   == nonce \o iat \o x25519PublicKey
             reportData == SHA512(combined)
         IN binding' = [NoBinding EXCEPT !.round = binding.round + 1,
                                         !.stage = "server",
                                         !.nonce = nonce, !.iat = iat,
                                         !.key = x25519PublicKey,
                                         !.server = reportData]
    /\ UNCHANGED <<policyVars, serverVars, handshakeDetails, handshake, pageVars, parserVars>>

\* frontend/src/App.tsx logAndVerifyX25519Binding, lines 135-183, on the
\* client object of this handshake: the page stores key, nonce and iat and
\* computes the report_data it expects.
PageExpects ==
    /\ binding.stage = "server"
    /\ LET client == [serverX25519PublicKey |-> Some(binding.key),
                      verifierData |-> Some([val |-> Some(binding.nonce),
                                             iat |-> Some(binding.iat)])]
           stored == StoreHandshakeDetails(handshakeDetails, client)
       IN /\ handshakeDetails' = stored
          /\ binding' = [binding EXCEPT !.stage = "client",
                                        !.client = Get(stored.reportData)]
    /\ UNCHANGED <<policyVars, serverVars, handshake, pageVars, parserVars>>

\* frontend/src/App.tsx testHandshakeBytes and the debug endpoint it posts
\* to: the stored handshake values in hex, or zeros before any handshake.
TestHandshakeBytes ==
    /\ binding.stage \in {"idle", "client"}
    /\ binding.debug = <<>>
    /\ LET real == /\ IsDefined(handshakeDetails.serverPubkey)
                   /\ IsDefined(handshakeDetails.nonce)
                   /\ IsDefined(handshakeDetails.iat)
           testPubkey == IF real THEN toHex(Get(handshakeDetails.serverPubkey))
                         ELSE [i \in 1..64 |-> "0"]
           testNonce  == IF real THEN toHex(Get(handshakeDetails.nonce))
                         ELSE [i \in 1..64 |-> "0"]
           testIat    == IF real THEN toHex(Get(handshakeDetails.iat))
                         ELSE [i \in 1..16 |-> "0"]
           data       == HandshakeBytes(testPubkey, testNonce, testIat)
       IN binding' = [binding EXCEPT !.stage = "debug",
                                     !.debug = data.report_data,
                                     !.debugError = data.error]
    /\ UNCHANGED <<policyVars, serverVars, handshakeDetails, handshake, pageVars, parserVars>>

InitDigest ==
    /\ policy = DeployedPolicy
    /\ PolicyIdle
    /\ USE_REAL_TDX = TRUE
    /\ ServerIdle
    /\ ClientIdle
    /\ PageIdle
    /\ ParserIdle

NextDigest ==
    \/ TunnelBinds
    \/ PageExpects
    \/ TestHandshakeBytes

SpecDigest == InitDigest /\ [][NextDigest]_vars

-----------------------------------------------------------------------------
(* The page's quote verification (frontend/src/App.tsx) *)

\* The 48-byte MRTD values of the quotes: two that the policies list and one
\* that no policy lists.
ListedMrtd == Bytes(MRTD_SIZE, 1)
OtherListedMrtd == Bytes(MRTD_SIZE, 2)
UnlistedMrtd == Bytes(MRTD_SIZE, 3)

\* The RTMR1 values of the quotes: the pinned one and another one.
PinnedRtmr1 == Bytes(RTMR_SIZE, 5)
OtherRtmr1 == Bytes(RTMR_SIZE, 6)

\* The policy.ts objects the page is built with: allowed_mrtd empty, with one
\* value, or with two values of which one is written without the prefix;
\* RTMR1 and one IMA file pinned or not.
PagePolicies ==
    [allowed_mrtd : { <<>>,
                      << bytesToHex(ListedMrtd) >>,
                      << StripHexPrefix(bytesToHex(ListedMrtd)),
                         bytesToHex(OtherListedMrtd) >> },
     allowed_rtmr1 : { undefined, Some(<< bytesToHex(PinnedRtmr1) >>) },
     allowed_rtmr2 : { undefined },
     allowed_rtmr3 : { Some(<<>>) },
     expected_ima_measurements :
         { undefined, Some(<< [path |-> PathA, hash |-> <<"A", "b">>] >>) }]

\* urlParams.get('mrtd'): null without the parameter, the empty string for
\* ?mrtd=, or the value given, here a value policy.ts does not list and one
\* it lists.
QueryMrtds ==
    { undefined, Some(<<>>), Some(bytesToHex(UnlistedMrtd)),
      Some(StripHexPrefix(bytesToHex(OtherListedMrtd))) }

\* const effectivePolicy = queryMrtd
\*   ? { ...policy, allowed_mrtd: [queryMrtd] } : policy
effectivePolicy ==
    IF TruthyString(queryMrtd)
    THEN [policy EXCEPT !.allowed_mrtd = << Get(queryMrtd) >>]
    ELSE policy

\* The body of a parsed quote with the given MRTD and RTMR1.
QuoteBody(mr_td, rtmr1) ==
    [report_data |-> Some(Zeros(TD_REPORT_DATA_SIZE)),
     mr_td |-> mr_td,
     rtmr0 |-> Some(Bytes(RTMR_SIZE, 4)),
     rtmr1 |-> rtmr1,
     rtmr2 |-> Some(Bytes(RTMR_SIZE, 7)),
     rtmr3 |-> Some(Bytes(RTMR_SIZE, 8))]

\* The RTMR0 values of the quotes: the one of QuoteBody, and one that equals
\* the RTMR1 value the policy may pin.
Rtmr0Values == { Bytes(RTMR_SIZE, 4), PinnedRtmr1 }

\* The quote with another RTMR0 and everything else as it is.
WithRtmr0(quote, rtmr0) ==
    [quote EXCEPT !.body = Some([Get(quote.body) EXCEPT !.rtmr0 = Some(rtmr0)])]

\* The parsed quotes TunnelClient hands to customVerifyQuote: complete ones,
\* and ones without header, without body, or without a register.
ParsedQuotes ==
    { WithRtmr0([header |-> Some([version |-> 4]),
                 body |-> Some(QuoteBody(Some(mr_td), Some(rtmr1)))], rtmr0) :
        mr_td \in {ListedMrtd, OtherListedMrtd, UnlistedMrtd},
        rtmr1 \in {PinnedRtmr1, OtherRtmr1},
        rtmr0 \in Rtmr0Values }
    \cup { [header |-> undefined, body |-> Some(QuoteBody(Some(ListedMrtd), Some(PinnedRtmr1)))],
           [header |-> Some([version |-> 4]), body |-> undefined],
           [header |-> Some([version |-> 4]), body |-> Some(QuoteBody(undefined, Some(PinnedRtmr1)))],
           [header |-> Some([version |-> 4]), body |-> Some(QuoteBody(Some(ListedMrtd), undefined))] }

\* What fetch(baseUrl + '/api/ima/log') does: it rejects, it answers with an
\* error status, or it answers with a log text.
ImaResponses ==
    { [outcome |-> "throws", text |-> <<>>], [outcome |-> "notOk", text |-> <<>>] }
    \cup { [outcome |-> "ok", text |-> text] : text \in { <<>>, LogMatching, LogMismatched } }

\* quote.header.version, quote.body.report_data, Array.from(...) and
\* bytesToHex(quote.body.X) throw a TypeError on an undefined operand.
ReadingThrows(quote) ==
    \/ ~IsDefined(quote.header)
    \/ ~IsDefined(quote.body)
    \/ ~IsDefined(Get(quote.body).report_data)
    \/ ~IsDefined(Get(quote.body).mr_td)
    \/ ~IsDefined(Get(quote.body).rtmr0)
    \/ ~IsDefined(Get(quote.body).rtmr1)
    \/ ~IsDefined(Get(quote.body).rtmr2)
    \/ ~IsDefined(Get(quote.body).rtmr3)

\* The inner try / catch: imaLog is the response text of an ok response and
\* stays undefined otherwise.
FetchedImaLog(response) ==
    IF response.outcome = "ok" THEN Some(response.text) ELSE undefined

\* A variant of the object handed to verifyMeasurements that reads RTMR0
\* where verifyTdxQuote reads RTMR1.
QuoteMeasurements_ReadsRtmr0(quote, response) ==
    [mrtd |-> bytesToHex(Get(Get(quote.body).mr_td)),
     rtmr1 |-> Some(bytesToHex(Get(Get(quote.body).rtmr0))),
     rtmr2 |-> Some(bytesToHex(Get(Get(quote.body).rtmr2))),
     rtmr3 |-> Some(bytesToHex(Get(Get(quote.body).rtmr3))),
     imaLog |-> FetchedImaLog(response)]

\* The object handed to verifyMeasurements.
QuoteMeasurements(quote, response) ==
    [mrtd |-> bytesToHex(Get(Get(quote.body).mr_td)),
     rtmr1 |-> Some(bytesToHex(Get(Get(quote.body).rtmr1))),
     rtmr2 |-> Some(bytesToHex(Get(Get(quote.body).rtmr2))),
     rtmr3 |-> Some(bytesToHex(Get(Get(quote.body).rtmr3))),
     imaLog |-> FetchedImaLog(response)]

\* What one call of verifyTdxQuote went through and returned.
VerifyOutcome(threw, measurements, verification, returned) ==
    [threw |-> threw, measurements |-> measurements,
     verification |-> verification, returned |-> returned]

\* The outer catch: console.error and return false.
Caught == VerifyOutcome(TRUE, NoMeasurements, Answer(FALSE), FALSE)

\* A variant of the last lines of verifyTdxQuote that returns true whatever
\* the verdict is.
Conclude_IgnoresVerdict(measurements, verification) ==
    VerifyOutcome(FALSE, measurements, verification, TRUE)

\* if (!verification.allowed) { return false }; return true
Conclude(measurements, verification) ==
    VerifyOutcome(FALSE, measurements, verification,
                  IF ~verification.allowed THEN FALSE ELSE TRUE)

\* const verification = verifyMeasurements({ mrtd, rtmr1, rtmr2, rtmr3,
\* imaLog }): verifyMeasurements of the imported module, which reads the
\* module-level policy of policy.ts.
Verify(measurements) == Conclude(measurements, verifyMeasurements(measurements))

\* async function verifyTdxQuote(quote), with the answer to its IMA log
\* request.
verifyTdxQuote(quote, response) ==
    IF ReadingThrows(quote) THEN Caught
    ELSE Verify(QuoteMeasurements(quote, response))

\* One call of verifyTdxQuote as the page's record of it; no IMA log is
\* requested when reading the quote throws.
VerifyRunOf(quote, response, outcome) ==
    [NoVerifyRun EXCEPT
       !.stage = "returned",
       !.quote = quote,
       !.response = IF outcome.threw THEN NoVerifyRun.response ELSE response,
       !.threw = outcome.threw,
       !.measurements = outcome.measurements,
       !.verification = outcome.verification,
       !.returned = outcome.returned]

\* TunnelClient.initialize(baseUrl, { customVerifyQuote: verifyTdxQuote }):
\* the tunnel client hands the parsed quote of the handshake to
\* verifyTdxQuote.
VerifyTdxQuote ==
    /\ verifyRun.stage = "idle"
    /\ \E quote \in ParsedQuotes, response \in ImaResponses :
         verifyRun' = VerifyRunOf(quote, response, verifyTdxQuote(quote, response))
    /\ UNCHANGED <<policyVars, serverVars, clientVars, queryMrtd, parserVars>>

\* function App(), the policy lines of the page: with the tunnel up the page
\* shows how many MRTD values effectivePolicy allows and whether they come
\* from the query parameter, or that no policy is configured; with an error
\* it shows the missing-policy hint.
Render ==
    /\ verifyRun.stage = "returned"
    /\ LET hasPolicyConfigured == Len(effectivePolicy.allowed_mrtd) > 0
           usingQueryMrtd      == queryMrtd # undefined
           text == IF verifyRun.returned
                   THEN IF hasPolicyConfigured THEN "MRTD verified against policy"
                        ELSE "No MRTD policy configured (all quotes accepted)"
                   ELSE IF hasPolicyConfigured THEN "Error"
                        ELSE "No MRTD policy configured"
       IN verifyRun' =
            [verifyRun EXCEPT
               !.stage = "rendered",
               !.note = [text |-> text,
                         values |-> IF verifyRun.returned /\ hasPolicyConfigured
                                    THEN Len(effectivePolicy.allowed_mrtd) ELSE 0,
                         fromQuery |-> verifyRun.returned /\ hasPolicyConfigured
                                       /\ usingQueryMrtd]]
    /\ UNCHANGED <<policyVars, serverVars, clientVars, queryMrtd, parserVars>>

InitVerify ==
    /\ policy \in PagePolicies
    /\ PolicyIdle
    /\ USE_REAL_TDX = TRUE
    /\ ServerIdle
    /\ ClientIdle
    /\ queryMrtd \in QueryMrtds
    /\ verifyRun = NoVerifyRun
    /\ ParserIdle

NextVerify ==
    \/ VerifyTdxQuote
    \/ Render

SpecVerify == InitVerify /\ [][NextVerify]_vars

-----------------------------------------------------------------------------
(* The two IMA log parsers: backend/ima.ts (src/backend/verify.test.ts) and
   shared/policy.ts *)

\* backend: function parseIMALine(line)
parseIMALine(line) ==
    LET parts == splitWhitespace(trim(line))
    IN IF Len(parts) < 5 THEN undefined
       ELSE Some([pcr          |-> parseInt(parts[1]),
                  templateHash |-> parts[2],
                  templateName |-> parts[3],
                  fileHash     |-> parts[4],
                  filePath     |-> join(SubSeq(parts, 5, Len(parts)))])

\* A variant of MapFilterLines that stops at the first line that is no
\* entry.
RECURSIVE MapFilterLines_StopsAtBadLine(_)
MapFilterLines_StopsAtBadLine(lines) ==
    IF lines = <<>> THEN <<>>
    ELSE IF parseIMALine(Head(lines)) = undefined THEN <<>>
    ELSE parseIMALine(Head(lines)) \o MapFilterLines_StopsAtBadLine(Tail(lines))

\* backend: .map(line => parseIMALine(line)).filter(entry => entry !== null)
RECURSIVE MapFilterLines(_)
MapFilterLines(lines) ==
    IF lines = <<>> THEN <<>>
    ELSE parseIMALine(Head(lines)) \o MapFilterLines(Tail(lines))

\* backend: export function parseIMALog(log)
backendParseIMALog(log) == MapFilterLines(split(log, "\n"))

\* Most lines of a text handed to the parsers.
MaxParseLines == 3

\* The lines of the texts: a plain measurement; one with leading and
\* trailing whitespace, a tab, a doubled space and a path of two tokens; one
\* whose register is no number; one with a carriage return at its end; one
\* of four tokens; the empty line; a line of whitespace.
ParseLines ==
    { LogLine(<<"s", ":", "a", "b">>, PathA),
      <<" ", "1", "0", "\t", "h", " ", " ", "t", " ", "f", " ", "/", "a", " ", " ", "b", " ">>,
      <<"x", " ", "h", " ", "t", " ", "f", " ", "/", "b">>,
      <<"7", " ", "h", " ", "t", " ", "f", " ", "/", "b", "\r">>,
      <<"1", "0", " ", "h", " ", "t", " ", "f">>,
      <<>>,
      <<" ", "\t">> }

\* lines.join('\n')
RECURSIVE JoinNewline(_)
JoinNewline(lines) ==
    IF lines = <<>> THEN <<>>
    ELSE IF Len(lines) = 1 THEN lines[1]
    ELSE Head(lines) \o <<"\n">> \o JoinNewline(Tail(lines))

ParseTexts ==
    { JoinNewline(lines) : lines \in UNION { [1..k -> ParseLines] : k \in 0..MaxParseLines } }

\* Both parsers applied to one log text.
ParseRunOf(log, entries, backendEntries) ==
    [stage |-> "parsed", log |-> log, entries |-> entries,
     backendEntries |-> backendEntries]

CallParseIMALog ==
    /\ parseRun.stage = "idle"
    /\ \E log \in ParseTexts :
         parseRun' = ParseRunOf(log, parseIMALog(log), backendParseIMALog(log))
    /\ UNCHANGED <<policyVars, serverVars, clientVars, pageVars>>

InitParse ==
    /\ policy = DeployedPolicy
    /\ PolicyIdle
    /\ USE_REAL_TDX = TRUE
    /\ ServerIdle
    /\ ClientIdle
    /\ PageIdle
    /\ ParserIdle

NextParse == CallParseIMALog

SpecParse == InitParse /\ [][NextParse]_vars

-----------------------------------------------------------------------------
(* Properties of the report_data digest *)

-----------------------------------------------------------------------------
(* Properties of the report client and of the tunnel's getQuote *)

\* The call holds a request directory it has not yet tried to remove.
HoldsContext(c) ==
    calls[c].pc \in {"writeFile", "readFile", "readTextFile", "finally"}

\* C1: a call that has created a request context has attempted to remove
\* that same context by the time it completes, whether it returns the quote,
\* fails the provider check, or meets an I/O error on inblob, outblob or
\* provider.
C1_RemovalAttemptedOnEveryExit ==
    \A c \in Calls :
        (calls[c].pc \in {"done", "readIMA"} /\ IsDefined(calls[c].tempDir))
            => calls[c].removed = calls[c].tempDir

\* C1 witness: a call created a context, met an I/O error reading outblob,
\* and completed with the removal of that context attempted.
C1_Witness ==
    \E c \in Calls :
        /\ calls[c].pc = "done"
        /\ calls[c].error = "readFile failed"
        /\ IsDefined(calls[c].tempDir)
        /\ calls[c].removed = calls[c].tempDir

\* C2: two calls in flight together never hold the same request context; the
\* context of a call exists and holds the digest that call wrote for as long
\* as the call uses it, and a call that returns, returns a quote produced for
\* its own digest.
C2_ContextsNeverAliased ==
    /\ \A c1, c2 \in Calls :
          (c1 # c2 /\ HoldsContext(c1) /\ HoldsContext(c2))
              => calls[c1].tempDir # calls[c2].tempDir
    /\ \A c \in Calls :
          /\ HoldsContext(c) => dirs[Get(calls[c].tempDir)].exists
          /\ calls[c].pc = "readFile" =>
                dirs[Get(calls[c].tempDir)].inblob = Some(calls[c].paddedReportData)
          /\ calls[c].returned =>
                calls[c].result.quote.report_data = calls[c].paddedReportData

\* C2 witness: one call has returned the quote for its digest while another
\* call, given a different digest, holds a context with its digest written.
C2_Witness ==
    \E c1, c2 \in Calls :
        /\ c1 # c2
        /\ calls[c1].returned
        /\ calls[c1].result.quote.report_data = calls[c1].paddedReportData
        /\ calls[c2].pc = "readTextFile"
        /\ calls[c2].paddedReportData # calls[c1].paddedReportData
        /\ calls[c2].quote.serial < calls[c1].quote.serial

C5_AnyOtherSizeRejected ==
    \A c \in Calls :
        (calls[c].kind = "tdx" /\ Len(calls[c].reportData) # TD_REPORT_DATA_SIZE) =>
            /\ ~calls[c].touched
            /\ calls[c].pc = "done"
            /\ calls[c].error \in {"reportData too large", "reportData must be 64 bytes"}

\* C5 as amended: a digest longer than 64 bytes makes getQuote fail with a
\* size error before any request context is created or the attestation
\* interface is touched.
C5_OversizeRejected ==
    \A c \in Calls :
        (calls[c].kind = "tdx" /\ Len(calls[c].reportData) > TD_REPORT_DATA_SIZE) =>
            /\ ~calls[c].touched
            /\ ~IsDefined(calls[c].tempDir)
            /\ calls[c].pc = "done"
            /\ ~calls[c].returned
            /\ calls[c].error = "reportData too large"

\* C5 witness: getQuote was given 65 bytes and failed without touching the
\* interface, while no directory exists.
C5_Witness ==
    \E c \in Calls :
        /\ calls[c].kind = "tdx"
        /\ Len(calls[c].reportData) = TD_REPORT_DATA_SIZE + 1
        /\ calls[c].pc = "done"
        /\ calls[c].error = "reportData too large"
        /\ ~calls[c].touched
        /\ \A d \in DirNames : ~dirs[d].exists

\* C6: a call gets past the provider check only when the provider identity,
\* trimmed of surrounding whitespace, is the whole string tdx_guest; every
\* other identity ends the call with the unexpected-provider error.
C6_ProviderEqualsTag ==
    \A c \in Calls :
        calls[c].providerRead =>
            IF trim(calls[c].provider) = TdxGuest
            THEN calls[c].error = ""
            ELSE /\ calls[c].error = "Unexpected provider"
                 /\ ~calls[c].returned

-----------------------------------------------------------------------------
(* Properties of the policy functions *)

IsPass(rtmr, n) == ~IsDefined(rtmr) \/ isRTMRAllowed(Get(rtmr), n)

\* C7: with an empty allowed_mrtd list isMRTDAllowed returns false for every
\* candidate, the empty string included, and verifyMeasurements returns
\* allowed = false for every measurement set, whatever the RTMR values and
\* the integrity log are.
C7_EmptyMrtdListRejectsAll ==
    policy.allowed_mrtd = <<>> =>
        /\ evalOp = "isMRTDAllowed" => evalResult.allowed = FALSE
        /\ evalOp = "verifyMeasurements" => evalResult.allowed = FALSE

\* C7 witness: verifyMeasurements was applied under an empty allowed_mrtd to
\* a candidate whose MRTD is the empty string, whose registers all pass and
\* whose integrity log matches the policy, and it answered allowed = false.
C7_Witness ==
    /\ policy.allowed_mrtd = <<>>
    /\ evalOp = "verifyMeasurements"
    /\ evalArgs.measurements.mrtd = <<>>
    /\ \A n \in 1..3 : RtmrConfigured(policy, n)
    /\ evalArgs.measurements.rtmr1 = Some(<<"0", "x", "a">>)
    /\ evalArgs.measurements.rtmr2 = Some(<<"0", "x", "a">>)
    /\ evalArgs.measurements.rtmr3 = Some(<<"0", "x", "a">>)
    /\ evalArgs.measurements.imaLog = Some(LogMatching)
    /\ IsDefined(policy.expected_ima_measurements)
    /\ evalResult.allowed = FALSE

ToUpperChar(ch) ==
    CASE ch = "a" -> "A" [] ch = "b" -> "B" [] ch = "x" -> "X" [] OTHER -> ch

toUpperCase(s) == [i \in 1..Len(s) |-> ToUpperChar(s[i])]

HasHexPrefix(s) == Len(s) >= 2 /\ s[1] = "0" /\ s[2] \in {"x", "X"}

\* C8: isMRTDAllowed(c) is true exactly when normalize(c) equals normalize(p)
\* for some entry p of policy.allowed_mrtd; the answer is the same for c in
\* upper case, in lower case, and for a prefix-free c written with the 0x or
\* 0X prefix put in front.
C8_MrtdAllowedIffNormalizedMember ==
    evalOp = "isMRTDAllowed" =>
        LET c == evalArgs.value
            answer == evalResult.allowed
        IN
        /\ answer =
             (\E i \in DOMAIN policy.allowed_mrtd :
                  normalizeMeasurement(c) = normalizeMeasurement(policy.allowed_mrtd[i]))
        /\ isMRTDAllowed(toUpperCase(c)) = answer
        /\ isMRTDAllowed(toLowerCase(c)) = answer
        /\ ~HasHexPrefix(c) =>
             /\ isMRTDAllowed(<<"0", "x">> \o c) = answer
             /\ isMRTDAllowed(<<"0", "X">> \o c) = answer

\* C8 witness: a lower-case, prefix-free candidate was accepted against an
\* entry written with an upper-case prefix.
C8_Witness ==
    /\ evalOp = "isMRTDAllowed"
    /\ policy.allowed_mrtd = << <<"0", "X", "a">> >>
    /\ evalArgs.value = <<"a">>
    /\ evalResult.allowed = TRUE

\* C9: isRTMRAllowed(v, n) is true for every v when the allow-list of
\* register n is absent or empty, otherwise it is true exactly when
\* normalize(v) equals normalize(p) for an entry p of that list; the lists of
\* the other registers do not affect the answer.
C9_RtmrAllowedPerRegister ==
    evalOp = "isRTMRAllowed" =>
        LET v    == evalArgs.value
            n    == evalArgs.rtmrNumber
            answer == evalResult.allowed
            list == CASE n = 1 -> policy.allowed_rtmr1
                      [] n = 2 -> policy.allowed_rtmr2
                      [] n = 3 -> policy.allowed_rtmr3
        IN
        /\ (list = undefined \/ list = Some(<<>>)) => answer = TRUE
        /\ (list # undefined /\ list # Some(<<>>)) =>
             answer =
               (\E i \in DOMAIN Get(list) :
                    normalizeMeasurement(v) = normalizeMeasurement(Get(list)[i]))
        /\ \A l1 \in Rtmr1Lists, l2 \in Rtmr2Lists, l3 \in Rtmr3Lists :
             LET other == [policy EXCEPT !.allowed_rtmr1 = IF n = 1 THEN @ ELSE l1,
                                         !.allowed_rtmr2 = IF n = 2 THEN @ ELSE l2,
                                         !.allowed_rtmr3 = IF n = 3 THEN @ ELSE l3]
             IN isRTMRAllowedIn(other, v, n) = answer

\* C9 witness: register 2 is not configured and accepts a value that the
\* pinned lists of registers 1 and 3 do not hold.
C9_Witness ==
    /\ evalOp = "isRTMRAllowed"
    /\ evalArgs.value = <<"0", "0">>
    /\ evalArgs.rtmrNumber = 2
    /\ policy.allowed_rtmr2 = undefined
    /\ RtmrConfigured(policy, 1)
    /\ RtmrConfigured(policy, 3)
    /\ evalResult.allowed = TRUE

\* C10: verifyMeasurements returns allowed = true exactly when the MRTD is
\* allowed, each register 1..3 is absent from the candidate or allowed by
\* isRTMRAllowed, and the integrity check was not evaluated or passed.
C10_VerdictIsConjunction ==
    evalOp = "verifyMeasurements" =>
        LET m == evalArgs.measurements IN
        evalResult.allowed =
            (/\ isMRTDAllowed(m.mrtd)
             /\ IsPass(m.rtmr1, 1)
             /\ IsPass(m.rtmr2, 2)
             /\ IsPass(m.rtmr3, 3)
             /\ (~ImaBlock(policy, m.imaLog).evaluated
                   \/ verifyIMAMeasurements(Get(m.imaLog)).allowed))

\* C11: whenever the policy configures an expected hash for a path and
\* verifyMeasurements is given a log text (the empty text included) that
\* holds no entry with that path, the path is reported as not found and the
\* overall verdict is allowed = false.
C11_AbsentPathFailsVerdict ==
    (/\ evalOp = "verifyMeasurements"
     /\ IsDefined(evalArgs.measurements.imaLog)
     /\ IsDefined(policy.expected_ima_measurements)) =>
        LET log      == Get(evalArgs.measurements.imaLog)
            expected == Get(policy.expected_ima_measurements)
        IN \A i \in 1..Len(expected) :
              FindEntry(parseIMALog(log), expected[i].path) = undefined =>
                  /\ ~evalResult.allowed
                  /\ \E k \in 1..Len(evalResult.details) :
                        evalResult.details[k] =
                            Detail("IMA", "fail", <<"NOT FOUND", expected[i].path>>)

\* The positions of the log entries recorded for a path.
EntriesOf(entries, filePath) ==
    { k \in 1..Len(entries) : entries[k].filePath = filePath }

\* The position of the first colon of a string, 0 when it has none.
FirstColon(s) ==
    IF \E k \in 1..Len(s) : s[k] = ":"
    THEN CHOOSE k \in 1..Len(s) : s[k] = ":" /\ \A j \in 1..(k - 1) : s[j] # ":"
    ELSE 0

\* The hash component of a field algorithm:hexhash, or the whole field.
HashComponent(fileHash) ==
    IF FirstColon(fileHash) = 0 THEN fileHash
    ELSE SubSeq(fileHash, FirstColon(fileHash) + 1, Len(fileHash))

InSeq(x, seq) == \E k \in 1..Len(seq) : seq[k] = x

\* C12: for each configured (path, expectedHash) whose path is present in the
\* log, the path passes iff the hash component of the first log entry of
\* that path equals expectedHash without regard to letter case; otherwise the
\* path is in mismatchedFiles and allowed is false. Entries after the first
\* do not enter.
C12_FirstEntryDecidesPath ==
    (/\ evalOp = "verifyIMAMeasurements"
     /\ TruthyArray(policy.expected_ima_measurements)) =>
        LET entries  == parseIMALog(evalArgs.value)
            expected == Get(policy.expected_ima_measurements)
        IN \A i \in 1..Len(expected) :
              EntriesOf(entries, expected[i].path) # {} =>
                LET first == CHOOSE k \in EntriesOf(entries, expected[i].path) :
                                \A j \in EntriesOf(entries, expected[i].path) : k <= j
                    pass  == toUpperCase(HashComponent(entries[first].fileHash))
                                = toUpperCase(expected[i].hash)
                IN /\ ~InSeq(expected[i].path, imaOutcome.missingFiles)
                   /\ pass <=> ~InSeq(expected[i].path, imaOutcome.mismatchedFiles)
                   /\ pass <=> InSeq(Detail("IMA", "ok", <<"hash matches", expected[i].path>>),
                                     imaOutcome.details)
                   /\ ~pass => ~imaOutcome.allowed

\* C12 witness: the log holds two entries of the pinned path, the first with
\* the expected hash in another letter case and the second with another
\* hash, and the path passes.
C12_Witness ==
    /\ evalOp = "verifyIMAMeasurements"
    /\ TruthyArray(policy.expected_ima_measurements)
    /\ Len(Get(policy.expected_ima_measurements)) = 1
    /\ evalArgs.value = JoinLines(<< LogLine(<<"s", ":", "a", "b">>, PathA),
                                      LogLine(<<"s", ":", "a", "a">>, PathA) >>)
    /\ imaOutcome.allowed
    /\ imaOutcome.checkedFiles = 1
    /\ imaOutcome.mismatchedFiles = <<>>

\* C13: normalizeMeasurement is idempotent on every string, and strings that
\* differ only in letter case or in a leading 0x prefix normalize to the same
\* lower-case, prefix-free string.
C13_NormalizeIdempotentInsensitive ==
    evalOp = "normalizeMeasurement" =>
        LET s == evalArgs.value IN
        /\ normalizeMeasurement(normalizeResult) = normalizeResult
        /\ ~HasHexPrefix(normalizeResult)
        /\ toLowerCase(normalizeResult) = normalizeResult
        /\ normalizeMeasurement(toUpperCase(s)) = normalizeResult
        /\ normalizeMeasurement(toLowerCase(s)) = normalizeResult
        /\ ~HasHexPrefix(s) =>
              /\ normalizeMeasurement(<<"0", "x">> \o s) = normalizeResult
              /\ normalizeMeasurement(<<"0", "X">> \o s) = normalizeResult

\* The offsets of the fixed fields an extraction reads: the MRTD for
\* extractMRTD, the four RTMRs for extractRTMRs, all five for step 3 of
\* getQuote.
FieldOffsets(op) ==
    (IF op \in {"extractMRTD", "getQuote"} THEN {MRTD_OFFSET} ELSE {})
    \cup (IF op \in {"extractRTMRs", "getQuote"}
          THEN {RTMR0_OFFSET, RTMR1_OFFSET, RTMR2_OFFSET, RTMR3_OFFSET} ELSE {})

HexValue(ch) == (CHOOSE k \in 1..16 : HexDigits[k] = ch) - 1

\* The bytes written by a string of 0x and lower-case hex digit pairs.
DecodeHex(s) ==
    [i \in 1..((Len(s) - 2) \div 2) |-> 16 * HexValue(s[2 * i + 1]) + HexValue(s[2 * i + 2])]

\* 0x followed by 96 lower-case hex digits.
IsMeasurementHex(s) ==
    /\ Len(s) = 98
    /\ s[1] = "0" /\ s[2] = "x"
    /\ \A k \in 3..98 : \E d \in 1..16 : HexDigits[d] = s[k]

\* The bytes [from, to) of an artifact.
Range(quote, from, to) == [i \in 1..(to - from) |-> quote[from + i]]

\* The artifact with every byte outside [184, 232) and [376, 568) changed.
OtherBytesChanged(quote) ==
    [i \in 1..Len(quote) |->
        IF (i - 1 >= 184 /\ i - 1 < 232) \/ (i - 1 >= 376 /\ i - 1 < 568)
        THEN quote[i] ELSE 255 - quote[i]]

C18_SubmittedIsZeroPadded ==
    /\ \A n \in {0, 48} :
          padReportData(Bytes(n, 1)).value = Bytes(n, 1) \o Zeros(TD_REPORT_DATA_SIZE - n)
    /\ \A c \in Calls :
        LET input == calls[c].reportData IN
        /\ (calls[c].pc = "readFile" /\ Len(input) <= TD_REPORT_DATA_SIZE) =>
              LET submitted == Get(dirs[Get(calls[c].tempDir)].inblob) IN
              /\ Len(submitted) = TD_REPORT_DATA_SIZE
              /\ \A i \in 1..Len(input) : submitted[i] = input[i]
              /\ \A i \in (Len(input) + 1)..TD_REPORT_DATA_SIZE : submitted[i] = 0
              /\ Len(input) = TD_REPORT_DATA_SIZE => submitted = input
        /\ Len(input) > TD_REPORT_DATA_SIZE =>
              /\ calls[c].pc = "done"
              /\ calls[c].error # ""
              /\ ~calls[c].touched
              /\ calls[c].tempDir = undefined

\* C18 witness: a call given 63 bytes, the last of them not zero, has
\* written 64 bytes to inblob.
C18_Witness ==
    \E c \in Calls :
        /\ calls[c].kind = "tdx"
        /\ Len(calls[c].reportData) = TD_REPORT_DATA_SIZE - 1
        /\ calls[c].reportData[TD_REPORT_DATA_SIZE - 1] # 0
        /\ calls[c].pc = "readFile"
        /\ Len(Get(dirs[Get(calls[c].tempDir)].inblob)) = TD_REPORT_DATA_SIZE
        /\ Get(dirs[Get(calls[c].tempDir)].inblob)[TD_REPORT_DATA_SIZE] = 0

-----------------------------------------------------------------------------
(* Properties of the page's quote verification *)

\* C19: when the page is opened with ?mrtd=X, verifyTdxQuote checks the
\* quote's MRTD against the one-element list [X] and not against the list of
\* policy.ts: the MRTD line of the verdict passes exactly when the quote's
\* MRTD normalizes to X, and a quote whose MRTD does not normalize to X is
\* rejected even if policy.ts lists it.
C19_QueryMrtdReplacesList ==
    (/\ verifyRun.stage # "idle"
     /\ ~verifyRun.threw
     /\ TruthyString(queryMrtd)) =>
        LET mrtd    == verifyRun.measurements.mrtd
            matches == normalizeMeasurement(mrtd) = normalizeMeasurement(Get(queryMrtd))
        IN /\ verifyRun.verification.details[1]
                = Detail("MRTD", IF matches THEN "ok" ELSE "fail", <<>>)
           /\ ~matches => ~verifyRun.returned

\* Every field verifyTdxQuote reads from the quote is there.
QuoteIsComplete(quote) ==
    /\ IsDefined(quote.header)
    /\ IsDefined(quote.body)
    /\ \A field \in {"report_data", "mr_td", "rtmr0", "rtmr1", "rtmr2", "rtmr3"} :
          IsDefined(Get(quote.body)[field])

-----------------------------------------------------------------------------
(* Properties of the detail trail of verifyMeasurements *)

Signals == {"MRTD", "RTMR1", "RTMR2", "RTMR3", "IMA"}

\* The positions of a trail that mark a signal as failed.
FailedEntries(details) ==
    { k \in 1..Len(details) : details[k].mark = "fail" /\ details[k].signal \in Signals }

\* C21: verifyMeasurements answers allowed = false if and only if its detail
\* trail holds at least one entry that marks MRTD, RTMR1, RTMR2, RTMR3 or IMA
\* as failed.
C21_DenialIsExplained ==
    evalOp = "verifyMeasurements" =>
        (~evalResult.allowed <=> FailedEntries(evalResult.details) # {})

\* C21 witness: a candidate whose MRTD passes is denied, and the only failed
\* entries of its trail are those of the integrity log.
C21_Witness ==
    /\ evalOp = "verifyMeasurements"
    /\ ~evalResult.allowed
    /\ evalResult.details[1] = Detail("MRTD", "ok", <<>>)
    /\ FailedEntries(evalResult.details) # {}
    /\ \A k \in FailedEntries(evalResult.details) : evalResult.details[k].signal = "IMA"

\* The place of a signal in the fixed order of the trail.
SignalRank(signal) ==
    CASE signal = "MRTD" -> 1
      [] signal = "RTMR1" -> 2
      [] signal = "RTMR2" -> 3
      [] signal = "RTMR3" -> 4
      [] signal = "IMA" -> 5

\* How many entries of a trail belong to a signal.
EntriesFor(details, signal) ==
    Cardinality({ k \in 1..Len(details) : details[k].signal = signal })

\* C22: in every trail of verifyMeasurements the MRTD entry is there and
\* first, the entries follow the order MRTD, RTMR1, RTMR2, RTMR3, integrity
\* log, and every supplied register and every supplied log has its entries
\* whether or not an earlier signal failed.
C22_TrailOrderIsFixed ==
    evalOp = "verifyMeasurements" =>
        LET details == evalResult.details
            m       == evalArgs.measurements
        IN /\ Len(details) >= 1
           /\ details[1].signal = "MRTD"
           /\ EntriesFor(details, "MRTD") = 1
           /\ \A k \in 1..Len(details) : details[k].signal \in Signals
           /\ \A j, k \in 1..Len(details) :
                 j < k => SignalRank(details[j].signal) <= SignalRank(details[k].signal)
           /\ EntriesFor(details, "RTMR1") = IF TruthyString(m.rtmr1) THEN 1 ELSE 0
           /\ EntriesFor(details, "RTMR2") = IF TruthyString(m.rtmr2) THEN 1 ELSE 0
           /\ EntriesFor(details, "RTMR3") = IF TruthyString(m.rtmr3) THEN 1 ELSE 0
           /\ (EntriesFor(details, "IMA") >= 1) <=> TruthyString(m.imaLog)

\* C22 witness: the MRTD fails and RTMR1 fails, and the trail still holds
\* the RTMR2 entry and the entries of the integrity log after them.
C22_Witness ==
    /\ evalOp = "verifyMeasurements"
    /\ Len(evalResult.details) >= 4
    /\ evalResult.details[1] = Detail("MRTD", "fail", <<>>)
    /\ evalResult.details[2] = Detail("RTMR1", "fail", <<>>)
    /\ evalResult.details[3].signal = "RTMR2"
    /\ evalResult.details[Len(evalResult.details)].signal = "IMA"

-----------------------------------------------------------------------------
(* Properties of the IMA log parsers *)

\* The lines of a text: the pieces between its newline characters.
LineStarts(text) ==
    {1} \cup { i + 1 : i \in { k \in 1..Len(text) : text[k] = "\n" } }

LineEnd(text, start) ==
    IF \E k \in start..Len(text) : text[k] = "\n"
    THEN (CHOOSE k \in start..Len(text) :
             text[k] = "\n" /\ \A j \in start..(k - 1) : text[j] # "\n") - 1
    ELSE Len(text)

\* The tokens of a line: its maximal runs of characters that are no
\* whitespace, as pairs of first and last position.
TokenSpans(line) ==
    { span \in (1..Len(line)) \X (1..Len(line)) :
        /\ span[1] <= span[2]
        /\ \A i \in span[1]..span[2] : ~IsWhitespace(line[i])
        /\ (span[1] = 1 \/ IsWhitespace(line[span[1] - 1]))
        /\ (span[2] = Len(line) \/ IsWhitespace(line[span[2] + 1])) }

\* The n-th token of a line, counted from 0.
Token(line, n) ==
    LET span == CHOOSE s \in TokenSpans(line) :
                    Cardinality({ t \in TokenSpans(line) : t[1] < s[1] }) = n
    IN SubSeq(line, span[1], span[2])

\* Tokens from..last joined by single spaces.
RECURSIVE JoinTokens(_, _, _)
JoinTokens(line, from, last) ==
    IF from > last THEN <<>>
    ELSE IF from = last THEN Token(line, from)
    ELSE Token(line, from) \o <<" ">> \o JoinTokens(line, from + 1, last)

\* The entry a line of at least five tokens stands for.
EntryOfLine(line) ==
    [pcr          |-> parseInt(Token(line, 0)),
     templateHash |-> Token(line, 1),
     templateName |-> Token(line, 2),
     fileHash     |-> Token(line, 3),
     filePath     |-> JoinTokens(line, 4, Cardinality(TokenSpans(line)) - 1)]

\* The entries of a text, line by line from position start on.
RECURSIVE EntriesFrom(_, _)
EntriesFrom(text, start) ==
    IF start > Len(text) + 1 THEN <<>>
    ELSE LET end  == LineEnd(text, start)
             line == SubSeq(text, start, end)
         IN (IF Cardinality(TokenSpans(line)) >= 5 THEN << EntryOfLine(line) >> ELSE <<>>)
            \o EntriesFrom(text, end + 2)

\* C23: parseIMALog returns, in line order, one entry for each line of at
\* least five whitespace-separated tokens, with the register parsed from
\* token 0, the hashes and the template name from tokens 1 to 3 and the path
\* from tokens 4 onward joined by single spaces; every other line yields
\* nothing; and the parser of the backend returns the same entries.
C23_ParsersAgreeWithFormat ==
    parseRun.stage = "parsed" =>
        /\ parseRun.entries = EntriesFrom(parseRun.log, 1)
        /\ parseRun.backendEntries = parseRun.entries

\* C23 witness: a text of three lines whose first line has fewer than five
\* tokens and whose other lines are measurements, one of them with a path of
\* two tokens; both parsers return the two entries.
C23_Witness ==
    /\ parseRun.stage = "parsed"
    /\ Cardinality(LineStarts(parseRun.log)) = 3
    /\ Len(parseRun.entries) = 2
    /\ Len(parseRun.backendEntries) = 2
    /\ \E k \in 1..2 : parseRun.entries[k].filePath = <<"/", "a", " ", "b">>
    /\ Cardinality(TokenSpans(SubSeq(parseRun.log, 1, LineEnd(parseRun.log, 1)))) < 5

-----------------------------------------------------------------------------
(* Properties of the report client: cleanup and order of the exchange *)

\* C25: a failing removal of the request context leaves the outcome of the
\* call as it was: the finally block keeps the error the call carried, a
\* call without error that read an accepted provider goes on with the quote
\* it read (tdx.ts getQuote returns it, tunnel.ts getQuote goes on to the IMA
\* log), and a call with an error ends with that error and returns nothing.
C25_CleanupFailureKeepsOutcome ==
    [][\A c \in Calls :
          (calls[c].pc = "finally" /\ calls'[c].pc # "finally" /\ calls'[c].cleanupFailed) =>
              /\ calls'[c].error = calls[c].error
              /\ calls'[c].quote = calls[c].quote
              /\ calls[c].error = "" =>
                    /\ calls[c].providerRead /\ ProviderAccepted(calls[c].provider)
                    /\ calls[c].kind = "tdx" =>
                          /\ calls'[c].pc = "done" /\ calls'[c].returned
                          /\ calls'[c].result.quote = calls[c].quote
                    /\ calls[c].kind = "tunnel" =>
                          /\ calls'[c].pc = "readIMA" /\ ~calls'[c].returned
              /\ calls[c].error # "" =>
                    /\ calls'[c].pc = "done" /\ ~calls'[c].returned
                    /\ calls'[c].result = NoResult]_vars

\* C25 witness: a call whose removal failed has returned the quote it read,
\* and another call whose removal failed has ended with its provider error.
C25_Witness ==
    \E c, d \in Calls :
        /\ calls[c].cleanupFailed /\ calls[c].returned
        /\ calls[c].quote.serial > 0 /\ calls[c].result.quote = calls[c].quote
        /\ calls[d].cleanupFailed /\ calls[d].pc = "done" /\ ~calls[d].returned
        /\ calls[d].error = "Unexpected provider"

\* The place of a step in one getQuote call.
StepRank(pc) ==
    CASE pc = "idle" -> 0
      [] pc = "makeTempDir" -> 1
      [] pc = "writeFile" -> 2
      [] pc = "readFile" -> 3
      [] pc = "readTextFile" -> 4
      [] pc = "finally" -> 5
      [] pc = "readIMA" -> 6
      [] pc = "done" -> 7

\* C26: every step of a getQuote call moves it forward in the order create
\* the context, write inblob, read outblob, read provider, remove the
\* context, so no step runs twice and none is repeated after a failure; the
\* context is named only by makeTempDir, inblob of that context is written
\* only by the write step, a quote is read only by the outblob step, the
\* provider only by the provider step, the removal is attempted only in the
\* finally block and on that context; a call with an error goes nowhere but
\* to the removal and out; and a call returns a quote only with the accepted
\* provider it read itself.
C26_OneExchangeInOrder ==
    [][\A c \in Calls :
          calls'[c] # calls[c] =>
              /\ StepRank(calls'[c].pc) > StepRank(calls[c].pc)
              /\ calls'[c].pc \notin {"finally", "done"} =>
                    StepRank(calls'[c].pc) = StepRank(calls[c].pc) + 1
              /\ calls'[c].tempDir # calls[c].tempDir =>
                    calls[c].pc = "makeTempDir" /\ calls[c].tempDir = undefined
              /\ (\E name \in DirNames :
                     /\ calls[c].tempDir = Some(name)
                     /\ dirs'[name].inblob # dirs[name].inblob
                     /\ dirs'[name].exists) =>
                    (calls[c].pc = "writeFile" /\ calls'[c].pc = "readFile")
              /\ calls'[c].quote # calls[c].quote =>
                    (calls[c].pc = "readFile" /\ generation' = generation + 1)
              /\ calls'[c].provider # calls[c].provider
                    \/ calls'[c].providerRead # calls[c].providerRead =>
                    calls[c].pc = "readTextFile"
              /\ calls'[c].removed # calls[c].removed =>
                    /\ calls[c].pc = "finally" /\ calls[c].removed = undefined
                    /\ calls'[c].removed = calls[c].tempDir
              /\ calls[c].error # "" =>
                    (calls[c].pc = "finally" /\ calls'[c].pc = "done" /\ ~calls'[c].returned)
              /\ (calls'[c].returned /\ USE_REAL_TDX) =>
                    /\ calls'[c].providerRead
                    /\ ProviderAccepted(calls'[c].provider)
                    /\ calls'[c].removed = calls'[c].tempDir
                    /\ calls'[c].result.quote = calls'[c].quote
                    /\ calls'[c].quote.serial > 0]_vars

\* C26 witness: one call has gone through the whole exchange and returned
\* its quote, and another has failed reading outblob, has removed its
\* context and is done without a quote.
C26_Witness ==
    \E c, d \in Calls :
        /\ calls[c].pc = "done" /\ calls[c].returned
        /\ calls[c].providerRead /\ IsDefined(calls[c].removed)
        /\ calls[d].pc = "done" /\ calls[d].error = "readFile failed"
        /\ calls[d].removed = calls[d].tempDir /\ IsDefined(calls[d].tempDir)
        /\ calls[d].quote = NoQuote /\ ~calls[d].providerRead

-----------------------------------------------------------------------------
(* Properties of getQuote's measurement step *)

\* C27: when the artifact is too small for the extraction of the
\* measurements, getQuote surfaces the error and does not return the
\* artifact.
C27_TooSmallArtifactNotReturned ==
    (/\ extraction.op = "getQuote"
     /\ Len(extraction.quote) < RTMR3_OFFSET + RTMR_SIZE) =>
        /\ extraction.error # NoError
        /\ extraction.returned = undefined

-----------------------------------------------------------------------------
(* Properties of the state shared between verification attempts *)

\* C28: the expected report_data the page holds after a handshake is
\* computed from the nonce, the iat and the server key of that handshake
\* alone, never from a value an earlier handshake left behind, and the
\* policy object stays as deployed.
C28_HandshakeInputsAreItsOwn ==
    /\ policy = DeployedPolicy
    /\ (handshake.count > 0 /\ IsDefined(handshakeDetails.reportData)) =>
          /\ HandshakeInputsAvailable
          /\ handshakeDetails.nonce = Get(handshake.verifierData).val
          /\ handshakeDetails.iat = Get(handshake.verifierData).iat
          /\ handshakeDetails.serverPubkey = handshake.serverX25519PublicKey
          /\ Get(handshakeDetails.reportData) =
                SHA512(Get(Get(handshake.verifierData).val)
                       \o Get(Get(handshake.verifierData).iat)
                       \o Get(handshake.serverX25519PublicKey))

-----------------------------------------------------------------------------
(* Properties of the QuoteData of the tunnel *)

\* The number a sequence of bytes writes in big-endian order.
RECURSIVE BigEndianValue(_)
BigEndianValue(bytes) ==
    IF bytes = <<>> THEN 0
    ELSE 256 * BigEndianValue(SubSeq(bytes, 1, Len(bytes) - 1)) + bytes[Len(bytes)]

\* C29: every QuoteData returned by the tunnel's getQuote carries, at the
\* step that returns it, the 32-byte nonce and the 8-byte big-endian iat
\* drawn by that call, and the quote it carries was produced for the
\* report_data SHA-512(nonce || iat || key) of that nonce, that iat and the
\* key the call was given.
C29_VerifierDataMatchesQuote ==
    [][\A c \in Calls :
          (calls'[c].kind = "tunnel" /\ calls'[c].returned /\ ~calls[c].returned) =>
              LET data == calls'[c].result
              IN /\ data.verifier_data = calls[c].verifierData
                 /\ Len(data.verifier_data.val) = 32
                 /\ data.verifier_data.val \in Nonces
                 /\ Len(data.verifier_data.iat) = 8
                 /\ BigEndianValue(data.verifier_data.iat) \in Times
                 /\ data.quote.serial > 0
                 /\ data.quote.report_data =
                       SHA512(data.verifier_data.val \o data.verifier_data.iat
                              \o calls[c].x25519PublicKey)]_vars

\* C29 witness: two tunnel calls with different nonces have both returned,
\* each with its own verifier data and a quote of its own report_data.
C29_Witness ==
    \E c, d \in Calls :
        /\ calls[c].kind = "tunnel" /\ calls[c].returned
        /\ calls[d].kind = "tunnel" /\ calls[d].returned
        /\ calls[c].result.verifier_data.val # calls[d].result.verifier_data.val
        /\ calls[c].result.quote.report_data # calls[d].result.quote.report_data
        /\ calls[c].result.quote.serial > calls[d].result.quote.serial
        /\ calls[d].result.quote.serial > 0


-----------------------------------------------------------------------------
(* Properties of the registers the page's verdict reads *)

=============================================================================
